---- MODULE Spec2Model ----
(***************************************************************************)
(* GitLite-Mobile: the FileExplorer component (view state, navigation,     *)
(* file open / edit / save / delete, and the archive expansion & upload    *)
(* pipeline), the session (AuthContext), the App shell (repository list    *)
(* and create dialog), the client they call (services/github.ts) and the  *)
(* upstream service the requests act on.                                   *)
(*                                                                         *)
(* Strings of the program (paths, file names, payloads) are sequences of   *)
(* one-character strings, so that joining, splitting and suffix tests are  *)
(* computed as the code computes them.  A status message is a sequence of  *)
(* text pieces (the template literal's parts); '' is the empty sequence.   *)
(***************************************************************************)
EXTENDS Integers, Sequences, FiniteSets, Bags, TLC

\* ------------------------------------------------------------------ bounds
\* user-initiated events (clicks, file picks) in one behaviour
MaxUserOps == 5
\* user-initiated events in one behaviour of the fair specification
MaxFairOps == 4
\* user-initiated events in one behaviour that starts when the page loads
MaxAppOps == 5
\* upload runs (handleFileUpload invocations that pass the early return)
MaxRuns == 2
MaxListOps == 4

VARIABLES
  user,          \* AuthContext: the session user ([present, githubToken])
  selectedRepo,  \* App: TRUE when a repository is selected (FileExplorer mounted iff user present and repo selected)
  inst,          \* identity of the mounted FileExplorer instance (state of an unmounted instance is gone)
  path,          \* FileExplorer useState: current directory
  contents,      \* directory listing shown
  loading,
  viewingFile,   \* the open FileEntry, or NoFile
  fileContent,
  isEditing,
  editContent,
  uploading,
  statusMsg,
  showActions,
  inputValue,    \* the two <input type="file"> elements' current selections
  runs,          \* upload runs started so far (sequence of run records)
  loads,         \* bag of loadContents calls awaiting their getContents response
  opens,         \* bag of handleFileClick calls awaiting their getContents response
  saves,         \* bag of handleSaveFile calls awaiting their putFile response
  deletes,       \* bag of handleDelete calls awaiting their deleteFile response
  remote,        \* upstream content store: path -> stored base64 payload
  budget,        \* user-initiated events still allowed in this behaviour
  authLoading,   \* AuthProvider useState `loading`
  store,         \* sessionStorage: [gh_token, gh_username]
  fbUser,        \* identity provider: TRUE when it holds a signed-in user
  notify,        \* an onAuthStateChanged notification awaits delivery
  logins,        \* login() calls awaiting signInWithPopup
  resolved,      \* login() calls whose popup succeeded, continuation not yet run
  signOuts,      \* logout() calls awaiting signOut
  lastLogin,     \* what the caller of the last finished login() got back
  repos,         \* AppContent useState: the known repositories (names)
  upstreamRepos, \* upstream: the account's repositories, newest first
  dataLoading,
  listReqs,      \* bag of loadRepos calls awaiting their fetchRepos response
  showCreateModal,
  creatingRepo,
  newRepoName,
  newRepoDesc,
  isPrivate,
  autoInit,
  gitignore,
  license,
  errorMsg,
  creates        \* bag of handleCreateRepo calls awaiting their createRepo response

sessVars == <<authLoading, store, fbUser, notify, logins, resolved, signOuts, lastLogin>>

repoVars == <<repos, upstreamRepos, dataLoading, listReqs>>

formVars == <<showCreateModal, creatingRepo, newRepoName, newRepoDesc, isPrivate, autoInit,
              gitignore, license, errorMsg, creates>>

appVars == <<sessVars, repoVars, formVars>>

vars == <<user, selectedRepo, inst, path, contents, loading, viewingFile, fileContent,
          isEditing, editContent, uploading, statusMsg, showActions, inputValue,
          runs, loads, opens, saves, deletes, remote, budget, appVars>>

viewVars == <<path, contents, loading, viewingFile, fileContent, isEditing, editContent,
              uploading, statusMsg, showActions, inputValue>>

\* ------------------------------------------------------------ string helpers
Range(s) == {s[k] : k \in 1..Len(s)}

Last(s) == s[Len(s)]

Min(S) == CHOOSE x \in S : \A y \in S : x <= y

EndsWith(s, suffix) ==
  /\ Len(s) >= Len(suffix)
  /\ SubSeq(s, Len(s) - Len(suffix) + 1, Len(s)) = suffix

StartsWith(s, prefix) ==
  /\ Len(s) >= Len(prefix)
  /\ SubSeq(s, 1, Len(prefix)) = prefix

Slash == "/"

\* String.prototype.split('/'): always at least one part; '' splits to ['']
RECURSIVE Split(_)
Split(s) ==
  IF \A k \in 1..Len(s) : s[k] # Slash
    THEN <<s>>
    ELSE LET k == Min({n \in 1..Len(s) : s[n] = Slash})
         IN <<SubSeq(s, 1, k - 1)>> \o Split(SubSeq(s, k + 1, Len(s)))

\* Array.prototype.join('/')
RECURSIVE Join(_)
Join(parts) ==
  IF Len(parts) = 0 THEN <<>>
  ELSE IF Len(parts) = 1 THEN parts[1]
  ELSE parts[1] \o <<Slash>> \o Join(Tail(parts))

\* Array.prototype.filter(Boolean) on an array of strings: drops ''
RECURSIVE FilterNonEmpty(_)
FilterNonEmpty(parts) ==
  IF parts = <<>> THEN <<>>
  ELSE (IF Head(parts) # <<>> THEN <<Head(parts)>> ELSE <<>>) \o FilterNonEmpty(Tail(parts))

ZipSuffix == <<".", "z", "i", "p">>

\* ------------------------------------------------------------------ session
NoToken == ""
Token == "tok"
NoUser == [present |-> FALSE, githubToken |-> NoToken]
SignedIn == [present |-> TRUE, githubToken |-> Token]

\* App.tsx renders FileExplorer only with a user and a selected repository
mounted == user.present /\ selectedRepo

\* state updates of an unmounted instance are dropped by React
Live(i) == mounted /\ i = inst

\* ------------------------------------------------------------- status texts
EmptyMsg == <<>>
Digits == <<"1", "2", "3", "4", "5", "6", "7", "8", "9">>
ProcessingMsg(n) == <<"Processing ", Digits[n], " files...">>
ExtractingMsg(name) == <<"Extracting ">> \o name \o <<"...">>
UploadCompleteMsg == <<"Upload complete!">>
UploadErrorMsg == <<"Error during upload.">>
LoadErrorMsg == <<"Error loading folder contents.">>
OpenErrorMsg == <<"Failed to load file.">>
DeletedMsg == <<"File deleted.">>
DeleteErrorMsg == <<"Failed to delete file.">>
SavedMsg == <<"File saved successfully.">>
SaveErrorMsg == <<"Failed to save changes.">>
\* what a finished run records when its component instance is gone
Unmounted == <<"(unmounted)">>

\* ---------------------------------------------------------------- entries
NoSha == <<>>
NoFile == [name |-> <<>>, path |-> <<>>, sha |-> NoSha, type |-> "none"]

\* ------------------------------------------------- upstream content store
\* The fingerprint of a stored file is a function of what is stored (a blob
\* hash): it changes exactly when a write changes the stored payload.
Sha(content) == <<"sha:">> \o content
TreeSha == <<"tree">>

DirPrefix(dir) == IF dir = <<>> THEN <<>> ELSE dir \o <<Slash>>

\* the stored paths below directory dir
PathsUnder(dir) ==
  {p \in DOMAIN remote : Len(p) > Len(DirPrefix(dir)) /\ StartsWith(p, DirPrefix(dir))}

\* the listing entry that stored path p contributes to the listing of dir
EntryOf(dir, p) ==
  LET rest == SubSeq(p, Len(DirPrefix(dir)) + 1, Len(p))
      seg == Split(rest)[1]
  IN IF seg = rest
       THEN [name |-> rest, path |-> p, sha |-> Sha(remote[p]), type |-> "file"]
       ELSE [name |-> seg, path |-> DirPrefix(dir) \o seg, sha |-> TreeSha, type |-> "dir"]

CodePoint(c) ==
  CASE c = "." -> 46 [] c = "/" -> 47 [] c = "B" -> 66
    [] c = "a" -> 97 [] c = "b" -> 98 [] c = "c" -> 99 [] c = "d" -> 100
    [] c = "f" -> 102 [] c = "i" -> 105 [] c = "p" -> 112 [] c = "z" -> 122

\* byte-wise order of two names (the order upstream lists a directory in)
RECURSIVE ByteLess(_, _)
ByteLess(a, b) ==
  IF b = <<>> THEN FALSE
  ELSE IF a = <<>> THEN TRUE
  ELSE IF Head(a) # Head(b) THEN CodePoint(Head(a)) < CodePoint(Head(b))
  ELSE ByteLess(Tail(a), Tail(b))

\* the entries of a directory in upstream's order
Listing(dir) ==
  LET S == {EntryOf(dir, p) : p \in PathsUnder(dir)}
  IN [k \in 1..Cardinality(S) |->
        CHOOSE e \in S : Cardinality({x \in S : ByteLess(x.name, e.name)}) = k - 1]

\* request outcomes: upstream serves the request, or the request fails
\* in transit / upstream answers 5xx (no effect on the store)
Outcomes == {"served", "error"}

NoBody == [isArray |-> FALSE, data |-> <<>>, content |-> <<>>, sha |-> NoSha]

\* GET /repos/{owner}/{repo}/contents/{path}
ServeGet(p, outcome) ==
  IF outcome = "error" THEN [status |-> 500, body |-> NoBody]
  ELSE IF p \in DOMAIN remote
    THEN [status |-> 200,
          body |-> [isArray |-> FALSE, data |-> <<>>, content |-> remote[p], sha |-> Sha(remote[p])]]
  ELSE IF PathsUnder(p) # {}
    THEN [status |-> 200,
          body |-> [isArray |-> TRUE, data |-> Listing(p), content |-> <<>>, sha |-> NoSha]]
  ELSE [status |-> 404, body |-> NoBody]

\* PUT /repos/{owner}/{repo}/contents/{path} with body {message, content, sha?}:
\* a new path is created when no sha is given; an existing path is updated only
\* when the sha given is the one stored
PutAccepted(req, outcome) ==
  /\ outcome = "served"
  /\ req.token = Token
  /\ IF req.path \in DOMAIN remote
       THEN req.sha # NoSha /\ req.sha = Sha(remote[req.path])
       ELSE req.sha = NoSha

\* the status upstream answers a PUT with
PutStatus(req, outcome) ==
  IF PutAccepted(req, outcome) THEN (IF req.path \in DOMAIN remote THEN 200 ELSE 201)
  ELSE IF outcome = "error" THEN 500
  ELSE IF req.token # Token THEN 401
  ELSE IF req.sha = NoSha THEN 422
  ELSE 409

StoreAfterPut(req, outcome) ==
  IF PutAccepted(req, outcome)
    THEN [p \in DOMAIN remote \cup {req.path} |->
            IF p = req.path THEN req.content ELSE remote[p]]
    ELSE remote

\* DELETE /repos/{owner}/{repo}/contents/{path} with body {message, sha}
DeleteAccepted(req, outcome) ==
  /\ outcome = "served"
  /\ req.token = Token
  /\ req.path \in DOMAIN remote
  /\ req.sha = Sha(remote[req.path])

DeleteStatus(req, outcome) ==
  IF DeleteAccepted(req, outcome) THEN 200
  ELSE IF outcome = "error" THEN 500
  ELSE IF req.token # Token THEN 401
  ELSE IF req.path \notin DOMAIN remote THEN 404
  ELSE 409

StoreAfterDelete(req, outcome) ==
  IF DeleteAccepted(req, outcome)
    THEN [p \in DOMAIN remote \ {req.path} |-> remote[p]]
    ELSE remote

\* ------------------------------------------------- services/github.ts
\* getContents: 404 gives [], any other non-2xx throws
\* GetContents without the 404 case
GetContentsThrowing404(resp) ==
  IF resp.status \in 200..299
    THEN [threw |-> FALSE, body |-> resp.body]
  ELSE [threw |-> TRUE, body |-> NoBody]

GetContents(resp) ==
  IF resp.status \in 200..299
    THEN [threw |-> FALSE, body |-> resp.body]
  ELSE IF resp.status = 404
    THEN [threw |-> FALSE, body |-> [NoBody EXCEPT !.isArray = TRUE]]
  ELSE [threw |-> TRUE, body |-> NoBody]

\* putFile / deleteFile: if (!response.ok) throw
ResponseOk(status) == status \in 200..299

\* putFile's request body: sha only when one is given (truthy)
PutRequest(token, p, contentBase64, sha) ==
  [token |-> token, path |-> p, content |-> contentBase64,
   sha |-> IF sha # NoSha THEN sha ELSE NoSha]

\* deleteFile's request: the sha is always sent
DeleteRequest(token, p, sha) ==
  [token |-> token, path |-> p, content |-> <<>>, sha |-> sha]

NoRequest == [token |-> NoToken, path |-> <<>>, content |-> <<>>, sha |-> NoSha]

\* ------------------------------------------ text transcoding (github.ts)
\* A text is a sequence of code points; a payload is a sequence of base64
\* characters.
Base64Alphabet ==
  <<"A","B","C","D","E","F","G","H","I","J","K","L","M","N","O","P",
    "Q","R","S","T","U","V","W","X","Y","Z","a","b","c","d","e","f",
    "g","h","i","j","k","l","m","n","o","p","q","r","s","t","u","v",
    "w","x","y","z","0","1","2","3","4","5","6","7","8","9","+","/">>

Pad == "="

B64(n) == Base64Alphabet[n + 1]

B64Index(c) == (CHOOSE k \in 1..64 : Base64Alphabet[k] = c) - 1

\* window.btoa on a binary string (a sequence of bytes)
RECURSIVE Btoa(_)
Btoa(b) ==
  IF Len(b) = 0 THEN <<>>
  ELSE IF Len(b) = 1
    THEN <<B64(b[1] \div 4), B64((b[1] % 4) * 16), Pad, Pad>>
  ELSE IF Len(b) = 2
    THEN <<B64(b[1] \div 4), B64(((b[1] % 4) * 16) + (b[2] \div 16)),
           B64((b[2] % 16) * 4), Pad>>
  ELSE <<B64(b[1] \div 4), B64(((b[1] % 4) * 16) + (b[2] \div 16)),
         B64(((b[2] % 16) * 4) + (b[3] \div 64)), B64(b[3] % 64)>>
       \o Btoa(SubSeq(b, 4, Len(b)))

\* window.atob on a padded base64 string
RECURSIVE Atob(_)
Atob(s) ==
  IF Len(s) < 4 THEN <<>>
  ELSE LET q1 == B64Index(s[1])
           q2 == B64Index(s[2])
       IN IF s[3] = Pad THEN <<(q1 * 4) + (q2 \div 16)>>
          ELSE IF s[4] = Pad
            THEN <<(q1 * 4) + (q2 \div 16), ((q2 % 16) * 16) + (B64Index(s[3]) \div 4)>>
          ELSE <<(q1 * 4) + (q2 \div 16), ((q2 % 16) * 16) + (B64Index(s[3]) \div 4),
                 ((B64Index(s[3]) % 4) * 64) + B64Index(s[4])>>
               \o Atob(SubSeq(s, 5, Len(s)))

\* Utf8 that keeps the low byte of a code point (btoa's Latin-1 reading)
Utf8Latin1(cp) == <<cp % 256>>

\* the UTF-8 bytes of one code point (what encodeURIComponent escapes)
Utf8(cp) ==
  IF cp < 128 THEN <<cp>>
  ELSE IF cp < 2048 THEN <<192 + (cp \div 64), 128 + (cp % 64)>>
  ELSE IF cp < 65536
    THEN <<224 + (cp \div 4096), 128 + ((cp \div 64) % 64), 128 + (cp % 64)>>
  ELSE <<240 + (cp \div 262144), 128 + ((cp \div 4096) % 64),
         128 + ((cp \div 64) % 64), 128 + (cp % 64)>>

RECURSIVE Utf8Bytes(_)
Utf8Bytes(text) ==
  IF text = <<>> THEN <<>> ELSE Utf8(Head(text)) \o Utf8Bytes(Tail(text))

\* toBase64: btoa of the percent-decoded encodeURIComponent(str)
toBase64(str) == Btoa(Utf8Bytes(str))

\* decodeURIComponent of the %xx rendering of a byte sequence: the code points,
\* or <<-1>> in place of the rest when the bytes are not UTF-8 (URIError)
Malformed == -1
IsCont(b) == b >= 128 /\ b < 192
RECURSIVE Utf8Decode(_)
Utf8Decode(b) ==
  IF b = <<>> THEN <<>>
  ELSE IF b[1] < 128 THEN <<b[1]>> \o Utf8Decode(Tail(b))
  ELSE IF b[1] >= 194 /\ b[1] < 224 /\ Len(b) >= 2 /\ IsCont(b[2])
    THEN <<(b[1] - 192) * 64 + (b[2] - 128)>> \o Utf8Decode(SubSeq(b, 3, Len(b)))
  ELSE IF b[1] >= 224 /\ b[1] < 240 /\ Len(b) >= 3 /\ IsCont(b[2]) /\ IsCont(b[3])
          /\ (b[1] - 224) * 4096 + (b[2] - 128) * 64 + (b[3] - 128) >= 2048
          /\ (b[1] - 224) * 4096 + (b[2] - 128) * 64 + (b[3] - 128) \notin 55296..57343
    THEN <<(b[1] - 224) * 4096 + (b[2] - 128) * 64 + (b[3] - 128)>>
         \o Utf8Decode(SubSeq(b, 4, Len(b)))
  ELSE IF b[1] >= 240 /\ b[1] < 245 /\ Len(b) >= 4 /\ IsCont(b[2]) /\ IsCont(b[3]) /\ IsCont(b[4])
          /\ (b[1] - 240) * 262144 + (b[2] - 128) * 4096 + (b[3] - 128) * 64 + (b[4] - 128) >= 65536
          /\ (b[1] - 240) * 262144 + (b[2] - 128) * 4096 + (b[3] - 128) * 64 + (b[4] - 128) <= 1114111
    THEN <<(b[1] - 240) * 262144 + (b[2] - 128) * 4096 + (b[3] - 128) * 64 + (b[4] - 128)>>
         \o Utf8Decode(SubSeq(b, 5, Len(b)))
  ELSE <<Malformed>>

\* fromBase64: [threw, text]
fromBase64(str) ==
  LET cps == Utf8Decode(Atob(str))
  IN IF \E k \in 1..Len(cps) : cps[k] = Malformed
       THEN [threw |-> TRUE, text |-> <<>>]
       ELSE [threw |-> FALSE, text |-> cps]

\* rawContent = data.content.replace(/\n/g, '')
Newline == "\n"
RECURSIVE StripNewlines(_)
StripNewlines(s) ==
  IF s = <<>> THEN <<>>
  ELSE (IF Head(s) = Newline THEN <<>> ELSE <<Head(s)>>) \o StripNewlines(Tail(s))

\* ---------------------------------------------- local files (the picker)
\* A File of the browser: name, webkitRelativePath ('' unless it comes from a
\* folder pick), the base64 payload FileReader yields for it, and, for an
\* archive, the entries JSZip exposes (Object.keys(zipContent.files) order).
\* the texts of the model: "a", "\u00e9" (two bytes in UTF-8) and
\* "\u4e16\U0001f600" (three and four bytes)
TextA == <<97>>
TextB == <<233>>
TextC == <<19990, 128512>>

PlainA ==
  [name |-> <<"a">>, webkitRelativePath |-> <<>>, data |-> toBase64(TextC), entries |-> <<>>]

\* z.zip: c, d/ (directory), d/c
ZipZ ==
  [name |-> <<"z", ".", "z", "i", "p">>, webkitRelativePath |-> <<>>, data |-> <<>>,
   entries |-> <<[name |-> <<"c">>, dir |-> FALSE, data |-> toBase64(TextB)],
                 [name |-> <<"d", "/">>, dir |-> TRUE, data |-> <<>>],
                 [name |-> <<"d", "/", "c">>, dir |-> FALSE, data |-> toBase64(TextC)]>>]

\* d.zip: d/ (directory) only
ZipD ==
  [name |-> <<"d", ".", "z", "i", "p">>, webkitRelativePath |-> <<>>, data |-> <<>>,
   entries |-> <<[name |-> <<"d", "/">>, dir |-> TRUE, data |-> <<>>]>>]

\* folder f holding file a
FolderFA ==
  [name |-> <<"a">>, webkitRelativePath |-> <<"f", "/", "a">>, data |-> toBase64(TextA),
   entries |-> <<>>]

\* what the user can select in each of the two inputs
Picks(input) ==
  IF input = "file"
    THEN {<<PlainA>>, <<ZipZ>>, <<ZipD>>, <<PlainA, ZipZ>>, <<ZipZ, PlainA>>, <<ZipD, PlainA>>}
    ELSE {<<FolderFA>>}

Inputs == {"file", "folder"}

\* the store when the repository is opened: a, d/b
InitialRemote ==
  LET pa == <<"a">>
      pdb == <<"d", "/", "b">>
  IN [p \in {pa, pdb} |-> IF p = pa THEN toBase64(TextA) ELSE toBase64(TextB)]

\* ------------------------------------------------ FileExplorer: listing
\* String.prototype.localeCompare on the names of the model (letters, '.' and
\* '/'): -1, 0 or 1.  The collation of the default locale compares the letters
\* without their case first (punctuation before letters), and only when the
\* two names are equal that way does the case decide, lower case first.
UpperCase == {"B"}
ToLowerCase(c) == IF c = "B" THEN "b" ELSE c
CollationKey(c) == CodePoint(ToLowerCase(c))

RECURSIVE ComparePrimary(_, _)
ComparePrimary(a, b) ==
  IF a = <<>> /\ b = <<>> THEN 0
  ELSE IF a = <<>> THEN -1
  ELSE IF b = <<>> THEN 1
  ELSE IF CollationKey(Head(a)) # CollationKey(Head(b))
    THEN (IF CollationKey(Head(a)) < CollationKey(Head(b)) THEN -1 ELSE 1)
  ELSE ComparePrimary(Tail(a), Tail(b))

\* names equal but for the case of their letters: the first difference decides
RECURSIVE CompareCase(_, _)
CompareCase(a, b) ==
  IF a = <<>> \/ b = <<>> THEN 0
  ELSE IF Head(a) # Head(b)
    THEN (IF Head(b) \in UpperCase THEN -1 ELSE 1)
  ELSE CompareCase(Tail(a), Tail(b))

LocaleCompare(a, b) ==
  IF ComparePrimary(a, b) # 0 THEN ComparePrimary(a, b) ELSE CompareCase(a, b)

\* the comparator of loadContents
CompareEntries(a, b) ==
  IF a.type = b.type THEN LocaleCompare(a.name, b.name)
  ELSE IF a.type = "dir" THEN -1 ELSE 1

\* Array.prototype.sort with that comparator (stable)
RECURSIVE InsertEntry(_, _)
InsertEntry(sorted, e) ==
  IF sorted = <<>> THEN <<e>>
  ELSE IF CompareEntries(e, Head(sorted)) < 0 THEN <<e>> \o sorted
  ELSE <<Head(sorted)>> \o InsertEntry(Tail(sorted), e)

RECURSIVE SortEntries(_)
SortEntries(data) ==
  IF Len(data) = 0 THEN <<>>
  ELSE InsertEntry(SortEntries(SubSeq(data, 1, Len(data) - 1)), data[Len(data)])

\* a loadContents call that passed the token check: the pending request
LoadCall(token, p, i) == [token |-> token, path |-> p, inst |-> i]

\* ------------------------------------------- FileExplorer: upload pipeline
IsArchive(file) == EndsWith(file.name, ZipSuffix)

\* Entries with the keys re-sorted (here: reversed) before the loop
EntriesReordered(file) ==
  [k \in 1..Len(file.entries) |-> file.entries[Len(file.entries) + 1 - k]]

Entries(file) == file.entries

\* NextEntry without the `if (entry.dir) continue`
NextEntryAnyKind(entries, j) == IF j < Len(entries) THEN j + 1 ELSE 0

\* the next entry after position j that the loop does not skip, or 0
NextEntry(entries, j) ==
  LET S == {k \in (j + 1)..Len(entries) : ~entries[k].dir}
  IN IF S = {} THEN 0 ELSE Min(S)

\* uploadPath = path ? `${path}/${name}` : name
\* UploadPath that always puts the separator in front of the name
UploadPathAlwaysSlash(p, name) == p \o <<Slash>> \o name

UploadPath(p, name) == IF p # <<>> THEN p \o <<Slash>> \o name ELSE name

\* relativePath = file.webkitRelativePath || file.name
RelativePath(file) ==
  IF file.webkitRelativePath # <<>> THEN file.webkitRelativePath ELSE file.name

\* UploadSha taking the fingerprint of the listed entry at the target, if any
UploadShaFromListing(run, target) ==
  IF \E k \in 1..Len(contents) : contents[k].path = target
    THEN contents[CHOOSE k \in 1..Len(contents) : contents[k].path = target].sha
    ELSE NoSha

\* the fingerprint handleFileUpload passes to putFile for a target: none
UploadSha(run, target) == NoSha

\* A run of handleFileUpload.  pc: "read" (awaiting a local read: loadAsync,
\* entry.async, readFileAsBase64), "put" (awaiting putFile), "done", "failed".
\* path, token, inst are what the handler's closure captured.  writes,
\* committed, lastStatus, updates, refreshes and endStatus record what the run
\* did: the writes it sent (selection index, entry index, target path, whether
\* its component was still mounted), the
\* writes answered 2xx, the status of the last answer, the status updates made
\* inside the loop, the loadContents calls made, and the status message its
\* component held when the handler returned.
NewRun(files) ==
  [pc |-> "read", files |-> files, i |-> 1, j |-> 0,
   path |-> path, token |-> user.githubToken, inst |-> inst,
   req |-> NoRequest, writes |-> <<>>, committed |-> 0, lastStatus |-> 0, updates |-> 0,
   refreshes |-> 0, endStatus |-> EmptyMsg]

\* the top of the for loop at index i2: [run, msgs (status updates made), term]
EnterSelection(run, i2) ==
  IF i2 > Len(run.files)
    THEN [run |-> [run EXCEPT !.pc = "done", !.i = i2, !.j = 0],
          msgs |-> <<>>, term |-> "done"]
  ELSE IF IsArchive(run.files[i2])
    THEN [run |-> [run EXCEPT !.pc = "read", !.i = i2, !.j = 0, !.updates = @ + 1],
          msgs |-> <<ExtractingMsg(run.files[i2].name)>>, term |-> "none"]
  ELSE [run |-> [run EXCEPT !.pc = "read", !.i = i2, !.j = 0],
        msgs |-> <<>>, term |-> "none"]

\* SendPut reading the directory of the latest render instead of the one the
\* handler was called in
SendPutCurrentDir(run, k, name, data) ==
  LET target == UploadPath(path, name)
      req == PutRequest(run.token, target, data, UploadSha(run, target))
  IN [run EXCEPT !.pc = "put", !.j = k, !.req = req,
                 !.writes = Append(@, [i |-> run.i, j |-> k, path |-> target,
                                       live |-> Live(run.inst),
                                       at |-> path])]

\* the call of putFile for the unit the loop is at
SendPut(run, k, name, data) ==
  LET target == UploadPath(run.path, name)
      req == PutRequest(run.token, target, data, UploadSha(run, target))
  IN [run EXCEPT !.pc = "put", !.j = k, !.req = req,
                 !.writes = Append(@, [i |-> run.i, j |-> k, path |-> target,
                                       live |-> Live(run.inst),
                                       at |-> path])]

\* the local reads of the current unit have resolved
AfterRead(run) ==
  LET f == run.files[run.i]
      k == NextEntry(Entries(f), run.j)
  IN IF IsArchive(f)
       THEN IF k = 0
              THEN EnterSelection(run, run.i + 1)
              ELSE [run |-> SendPut(run, k, Entries(f)[k].name, Entries(f)[k].data),
                    msgs |-> <<>>, term |-> "none"]
       ELSE [run |-> SendPut(run, 0, RelativePath(f), f.data), msgs |-> <<>>, term |-> "none"]

\* AfterPut with one automatic retry of a failed unit
AfterPutRetrying(run, threw) ==
  LET f == run.files[run.i]
      sent == Cardinality({n \in 1..Len(run.writes) :
                             run.writes[n].i = run.i /\ run.writes[n].j = run.j})
      r1 == [run EXCEPT !.committed = @ + 1]
  IN IF threw /\ sent < 2
       THEN [run |-> [run EXCEPT !.pc = "read", !.j = IF run.j > 0 THEN run.j - 1 ELSE 0],
             msgs |-> <<>>, term |-> "none"]
     ELSE IF threw
       THEN [run |-> [run EXCEPT !.pc = "failed"], msgs |-> <<>>, term |-> "failed"]
     ELSE IF EndsWith(f.name, ZipSuffix)
             /\ \E k \in (run.j + 1)..Len(f.entries) : ~f.entries[k].dir
       THEN [run |-> [r1 EXCEPT !.pc = "read"], msgs |-> <<>>, term |-> "none"]
     ELSE EnterSelection(r1, run.i + 1)

\* AfterPut with the error of one unit swallowed: the loop goes on
AfterPutSwallowing(run, threw) ==
  LET f == run.files[run.i]
      r1 == [run EXCEPT !.committed = IF threw THEN @ ELSE @ + 1]
  IN IF EndsWith(f.name, ZipSuffix)
        /\ \E k \in (run.j + 1)..Len(f.entries) : ~f.entries[k].dir
       THEN [run |-> [r1 EXCEPT !.pc = "read"], msgs |-> <<>>, term |-> "none"]
       ELSE EnterSelection(r1, run.i + 1)

\* putFile has returned or thrown
AfterPut(run, threw) ==
  IF threw
    THEN [run |-> [run EXCEPT !.pc = "failed"], msgs |-> <<>>, term |-> "failed"]
    ELSE LET f == run.files[run.i]
             r1 == [run EXCEPT !.committed = @ + 1]
         IN IF IsArchive(f) /\ NextEntry(Entries(f), run.j) # 0
              THEN [run |-> [r1 EXCEPT !.pc = "read"], msgs |-> <<>>, term |-> "none"]
              ELSE EnterSelection(r1, run.i + 1)

\* the status updates made when the loop is left: after the loop
\* setStatusMsg("Upload complete!") and then loadContents(), whose first
\* statements are setLoading(true); setStatusMsg(''); in the catch block
\* setStatusMsg("Error during upload.")
ExitMsgs(term, token) ==
  IF term = "done"
    THEN <<UploadCompleteMsg>> \o (IF token # NoToken THEN <<EmptyMsg>> ELSE <<>>)
  ELSE IF term = "failed" THEN <<UploadErrorMsg>>
  ELSE <<>>

\* loadContents() is called after the loop only
RefreshOnExit(term) == term = "done"

\* the state after a step of run r that ends in `out`
ApplyRun(r, out) ==
  LET live == Live(out.run.inst)
      msgs == out.msgs \o ExitMsgs(out.term, out.run.token)
      status == IF live /\ msgs # <<>> THEN Last(msgs) ELSE statusMsg
      refresh == RefreshOnExit(out.term) /\ out.run.token # NoToken
      final == [out.run EXCEPT
                  !.refreshes = IF refresh THEN @ + 1 ELSE @,
                  !.endStatus = IF out.term = "none" THEN @
                                ELSE IF live THEN status ELSE Unmounted]
  IN /\ runs' = [runs EXCEPT ![r] = final]
     /\ statusMsg' = status
     /\ loading' = IF live /\ refresh THEN TRUE ELSE loading
     /\ uploading' = IF live /\ out.term # "none" THEN FALSE ELSE uploading
     /\ inputValue' = IF live /\ out.term # "none"
                        THEN [x \in Inputs |-> <<>>] ELSE inputValue
     /\ loads' = IF refresh
                   THEN loads (+) SetToBag({LoadCall(out.run.token, out.run.path, out.run.inst)})
                   ELSE loads

\* ------------------------------------------------------------ the state
Texts == {TextA, TextB, TextC}

BagAdd(bag, x) == bag (+) SetToBag({x})
BagRemove(bag, x) == bag (-) SetToBag({x})

\* the state of a FileExplorer instance when it is mounted, after its mount
\* effect has run (useState initial values, then loadContents())
FreshView(token, i) ==
  /\ path' = <<>>
  /\ contents' = <<>>
  /\ loading' = (token # NoToken)
  /\ viewingFile' = NoFile
  /\ fileContent' = <<>>
  /\ isEditing' = FALSE
  /\ editContent' = <<>>
  /\ uploading' = FALSE
  /\ statusMsg' = EmptyMsg
  /\ showActions' = FALSE
  /\ inputValue' = [x \in Inputs |-> <<>>]
  /\ loads' = IF token # NoToken THEN BagAdd(loads, LoadCall(token, <<>>, i)) ELSE loads

\* an unmounted instance has no state
NoView ==
  /\ path' = <<>>
  /\ contents' = <<>>
  /\ loading' = FALSE
  /\ viewingFile' = NoFile
  /\ fileContent' = <<>>
  /\ isEditing' = FALSE
  /\ editContent' = <<>>
  /\ uploading' = FALSE
  /\ statusMsg' = EmptyMsg
  /\ showActions' = FALSE
  /\ inputValue' = [x \in Inputs |-> <<>>]

\* ------------------------------------------------- session and App shell
Username == "u"
EmptyStore == [gh_token |-> NoToken, gh_username |-> ""]
FullStore == [gh_token |-> Token, gh_username |-> Username]

\* StoredUser without the token of sessionStorage
StoredUserTokenless == [present |-> TRUE, githubToken |-> NoToken]

\* the user the auth observer builds (AuthContext 30-40): githubToken is
\* storedToken || undefined
StoredUser == [present |-> TRUE, githubToken |-> store.gh_token]

\* what `await login()` gives its caller: login catches every error (72-74),
\* so the promise is fulfilled with undefined whether the popup succeeded or not
LoginReturn(ok) == [settled |-> "fulfilled", value |-> "undefined"]

NoLogin == [ok |-> FALSE, seen |-> [settled |-> "none", value |-> "none"]]

\* repositories of the account when the page loads
ExistingRepo == "r1"
NewName == "n1"
InitialRepos == <<ExistingRepo>>

\* loadRepos up to its await (App 42-46); snapshot: the account's repositories
\* when the request is sent
ListCall(token) == [token |-> token, snapshot |-> upstreamRepos]

\* ReposEffect with a loadRepos that does not look at the token
ReposEffectUnguarded(u2, sel2) ==
  IF u2.present /\ ~sel2
    THEN /\ dataLoading' = TRUE
         /\ listReqs' = BagAdd(listReqs, ListCall(u2.githubToken))
    ELSE UNCHANGED <<dataLoading, listReqs>>

\* the effect of App 36-40 after an update that set user to u2 or selectedRepo
\* to sel2: loadRepos() when there is a token and no repository is selected
ReposEffect(u2, sel2) ==
  IF u2.githubToken # NoToken /\ ~sel2
    THEN /\ dataLoading' = TRUE
         /\ listReqs' = BagAdd(listReqs, ListCall(u2.githubToken))
    ELSE UNCHANGED <<dataLoading, listReqs>>

\* what an update of user or selectedRepo does to the explorer (App 159-160,
\* FileExplorer 37-40): it is mounted afresh, unmounted, or, when the token in
\* its effect's dependencies changed, reloads its listing
ExplorerEffect(u2, sel2) ==
  IF ~mounted /\ u2.present /\ sel2
    THEN /\ inst' = inst + 1
         /\ FreshView(u2.githubToken, inst + 1)
  ELSE IF mounted /\ ~(u2.present /\ sel2)
    THEN /\ NoView
         /\ UNCHANGED <<inst, loads>>
  ELSE IF mounted /\ u2.githubToken # user.githubToken /\ u2.githubToken # NoToken
          /\ viewingFile = NoFile
    THEN /\ loading' = TRUE
         /\ statusMsg' = EmptyMsg
         /\ loads' = BagAdd(loads, LoadCall(u2.githubToken, path, inst))
         /\ UNCHANGED <<inst, path, contents, viewingFile, fileContent, isEditing,
                        editContent, uploading, showActions, inputValue>>
  ELSE UNCHANGED <<inst, viewVars, loads>>

\* setUser(u2) and the effects of the render that follows
SetUser(u2) ==
  /\ user' = u2
  /\ ExplorerEffect(u2, selectedRepo)
  /\ ReposEffect(u2, selectedRepo)
  /\ UNCHANGED selectedRepo

\* useState initial values of the create dialog (App 26-34)
FreshForm ==
  /\ showCreateModal = FALSE
  /\ creatingRepo = FALSE
  /\ newRepoName = ""
  /\ newRepoDesc = ""
  /\ isPrivate = FALSE
  /\ autoInit = TRUE
  /\ gitignore = "None"
  /\ license = "None"
  /\ errorMsg = ""
  /\ creates = EmptyBag

InitStore(n, stored) ==
  /\ authLoading = FALSE
  /\ store = FullStore
  /\ fbUser = TRUE
  /\ notify = <<>>
  /\ logins = 0
  /\ resolved = 0
  /\ signOuts = 0
  /\ lastLogin = NoLogin
  /\ repos = InitialRepos
  /\ upstreamRepos = InitialRepos
  /\ dataLoading = FALSE
  /\ listReqs = EmptyBag
  /\ FreshForm
  /\ user = SignedIn
  /\ selectedRepo = TRUE
  /\ inst = 1
  /\ path = <<>>
  /\ contents = <<>>
  /\ loading = TRUE
  /\ viewingFile = NoFile
  /\ fileContent = <<>>
  /\ isEditing = FALSE
  /\ editContent = <<>>
  /\ uploading = FALSE
  /\ statusMsg = EmptyMsg
  /\ showActions = FALSE
  /\ inputValue = [x \in Inputs |-> <<>>]
  /\ runs = <<>>
  /\ loads = SetToBag({LoadCall(Token, <<>>, 1)})
  /\ opens = EmptyBag
  /\ saves = EmptyBag
  /\ deletes = EmptyBag
  /\ remote = stored
  /\ budget = n

InitWith(n) == InitStore(n, InitialRemote)

\* a signed-in user has just opened the repository
Init == InitWith(MaxUserOps)

\* the same, for a repository that also holds the file B at the top level
MixedRemote == (<<"B">> :> toBase64(TextC)) @@ InitialRemote
ListInit == InitStore(MaxListOps, MixedRemote)

\* the page has just loaded: AuthProvider is mounted with loading = true and
\* the auth observer's first notification is on its way.  The identity
\* provider may hold a user from an earlier visit, and sessionStorage may hold
\* the token of an earlier login in this tab.
AppInit ==
  /\ authLoading = TRUE
  /\ \E fb \in BOOLEAN, st \in {EmptyStore, FullStore} :
       /\ (st = FullStore => fb)
       /\ fbUser = fb
       /\ store = st
       /\ notify = <<fb>>
  /\ logins = 0
  /\ resolved = 0
  /\ signOuts = 0
  /\ lastLogin = NoLogin
  /\ repos = <<>>
  /\ upstreamRepos = InitialRepos
  /\ dataLoading = FALSE
  /\ listReqs = EmptyBag
  /\ FreshForm
  /\ user = NoUser
  /\ selectedRepo = FALSE
  /\ inst = 0
  /\ path = <<>>
  /\ contents = <<>>
  /\ loading = FALSE
  /\ viewingFile = NoFile
  /\ fileContent = <<>>
  /\ isEditing = FALSE
  /\ editContent = <<>>
  /\ uploading = FALSE
  /\ statusMsg = EmptyMsg
  /\ showActions = FALSE
  /\ inputValue = [x \in Inputs |-> <<>>]
  /\ runs = <<>>
  /\ loads = EmptyBag
  /\ opens = EmptyBag
  /\ saves = EmptyBag
  /\ deletes = EmptyBag
  /\ remote = InitialRemote
  /\ budget = MaxAppOps

\* --------------------------------------------------- loadContents (42-61)
\* the effect of lines 37-40 after an update that changed path: loadContents()
\* of the new render unless a file is open
PathEffect(newPath, newViewing) ==
  IF newPath # path /\ newViewing = NoFile /\ user.githubToken # NoToken
    THEN /\ loading' = TRUE
         /\ statusMsg' = EmptyMsg
         /\ loads' = BagAdd(loads, LoadCall(user.githubToken, newPath, inst))
    ELSE UNCHANGED <<loading, statusMsg, loads>>

\* getContents has answered a loadContents call
LoadResponse(l, outcome) ==
  /\ l \in BagToSet(loads)
  /\ loads' = BagRemove(loads, l)
  /\ LET res == GetContents(ServeGet(l.path, outcome))
     IN IF Live(l.inst)
          THEN /\ contents' = IF ~res.threw /\ res.body.isArray
                                THEN SortEntries(res.body.data) ELSE contents
               /\ statusMsg' = IF res.threw THEN LoadErrorMsg ELSE statusMsg
               /\ loading' = FALSE
          ELSE UNCHANGED <<contents, statusMsg, loading>>
  /\ UNCHANGED <<user, selectedRepo, inst, path, viewingFile, fileContent, isEditing,
                 editContent, uploading, showActions, inputValue, runs, opens, saves,
                 deletes, remote, budget>>
  /\ UNCHANGED appVars

\* ------------------------------------------------------ navigation (63-81)
\* what the folder list shows and lets the user click (lines 251-362): nothing
\* while loading, while a file is open, or under the action sheet
ListClickable == mounted /\ ~loading /\ viewingFile = NoFile /\ ~showActions

HeaderClickable == mounted /\ ~showActions

\* the updater of handleNavigate (line 64)
NavigatePath(prev, folderName) ==
  IF prev # <<>> THEN prev \o <<Slash>> \o folderName ELSE folderName

handleNavigate(e) ==
  /\ budget > 0
  /\ ListClickable
  /\ \E k \in 1..Len(contents) : contents[k] = e
  /\ e.type = "dir"
  /\ budget' = budget - 1
  /\ LET newPath == NavigatePath(path, e.name)
     IN /\ path' = newPath
        /\ PathEffect(newPath, viewingFile)
  /\ UNCHANGED <<user, selectedRepo, inst, contents, viewingFile, fileContent, isEditing,
                 editContent, uploading, showActions, inputValue, runs, opens, saves,
                 deletes, remote>>
  /\ UNCHANGED appVars

\* parts.pop(); parts.join('/')
\* ParentPath dropping the first part instead of the last
ParentPathTail(p) == LET parts == Split(p) IN Join(Tail(parts))

ParentPath(p) == LET parts == Split(p) IN Join(SubSeq(parts, 1, Len(parts) - 1))

handleNavigateUp ==
  /\ budget > 0
  /\ HeaderClickable
  /\ budget' = budget - 1
  /\ IF viewingFile # NoFile
       THEN /\ viewingFile' = NoFile
            /\ fileContent' = <<>>
            /\ isEditing' = FALSE
            /\ UNCHANGED <<selectedRepo, path, contents, loading, editContent, uploading,
                           statusMsg, showActions, inputValue, loads, dataLoading, listReqs>>
       ELSE IF path = <<>>
         THEN \* onBack(): App unmounts the explorer and reloads the repositories
              /\ selectedRepo' = FALSE
              /\ NoView
              /\ ReposEffect(user, FALSE)
              /\ UNCHANGED loads
         ELSE /\ path' = ParentPath(path)
              /\ PathEffect(ParentPath(path), viewingFile)
              /\ UNCHANGED <<selectedRepo, contents, viewingFile, fileContent, isEditing,
                             editContent, uploading, showActions, inputValue, dataLoading,
                             listReqs>>
  /\ UNCHANGED <<user, inst, runs, opens, saves, deletes, remote>>
  /\ UNCHANGED <<sessVars, repos, upstreamRepos, formVars>>

\* a breadcrumb (lines 216-235): k = 0 is Root, k >= 1 the k-th path part
Breadcrumb(k) ==
  /\ budget > 0
  /\ HeaderClickable
  /\ k \in 0..Len(FilterNonEmpty(Split(path)))
  /\ budget' = budget - 1
  /\ LET newPath == IF k = 0 THEN <<>>
                    ELSE Join(SubSeq(FilterNonEmpty(Split(path)), 1, k))
     IN /\ path' = newPath
        /\ viewingFile' = NoFile
        /\ PathEffect(newPath, NoFile)
  /\ UNCHANGED <<user, selectedRepo, inst, contents, fileContent, isEditing, editContent,
                 uploading, showActions, inputValue, runs, opens, saves, deletes, remote>>
  /\ UNCHANGED appVars

\* the upload button and the action sheet (lines 365-448)
OpenActions ==
  /\ budget > 0
  /\ mounted /\ viewingFile = NoFile /\ ~showActions
  /\ budget' = budget - 1
  /\ showActions' = TRUE
  /\ UNCHANGED <<user, selectedRepo, inst, path, contents, loading, viewingFile, fileContent,
                 isEditing, editContent, uploading, statusMsg, inputValue, runs, loads,
                 opens, saves, deletes, remote>>
  /\ UNCHANGED appVars

CloseActions ==
  /\ budget > 0
  /\ mounted /\ viewingFile = NoFile /\ showActions
  /\ budget' = budget - 1
  /\ showActions' = FALSE
  /\ UNCHANGED <<user, selectedRepo, inst, path, contents, loading, viewingFile, fileContent,
                 isEditing, editContent, uploading, statusMsg, inputValue, runs, loads,
                 opens, saves, deletes, remote>>
  /\ UNCHANGED appVars

\* ------------------------------------------------ App: session and repo
\* the main view of AppContent (App 124-296) is rendered
MainShown == ~authLoading /\ user.present

\* RepoList is rendered and not covered by the create dialog
RepoListShown == MainShown /\ ~selectedRepo /\ ~showCreateModal

\* RepoList's onSelectRepo (part_003 99-103): a new FileExplorer instance is
\* mounted
SelectRepo ==
  /\ budget > 0
  /\ RepoListShown /\ ~dataLoading /\ repos # <<>>
  /\ budget' = budget - 1
  /\ selectedRepo' = TRUE
  /\ ExplorerEffect(user, TRUE)
  /\ ReposEffect(user, TRUE)
  /\ UNCHANGED <<user, runs, opens, saves, deletes, remote>>
  /\ UNCHANGED <<sessVars, repos, upstreamRepos, formVars>>

\* the navbar logo (App 129-131): setSelectedRepo(null)
GoHome ==
  /\ budget > 0
  /\ MainShown /\ selectedRepo /\ ~showCreateModal /\ ~showActions
  /\ budget' = budget - 1
  /\ selectedRepo' = FALSE
  /\ ExplorerEffect(user, FALSE)
  /\ ReposEffect(user, FALSE)
  /\ UNCHANGED <<user, runs, opens, saves, deletes, remote>>
  /\ UNCHANGED <<sessVars, repos, upstreamRepos, formVars>>

\* the auth observer's callback (AuthContext 26-47)
AuthStateChanged ==
  /\ notify # <<>>
  /\ notify' = Tail(notify)
  /\ authLoading' = FALSE
  /\ IF Head(notify)
       THEN /\ SetUser(StoredUser)
            /\ UNCHANGED store
       ELSE /\ SetUser(NoUser)
            /\ store' = EmptyStore
  /\ UNCHANGED <<fbUser, logins, resolved, signOuts, lastLogin>>
  /\ UNCHANGED <<runs, opens, saves, deletes, remote, budget, repos, upstreamRepos, formVars>>

\* the sign-in button (App 111-118): login() up to its await (AuthContext 51-53).
\* The observer is notified in a microtask of the event that changed the
\* provider's user, so that no notification is still waiting when a click,
\* a later task, is handled.
login ==
  /\ budget > 0
  /\ ~authLoading /\ ~user.present
  /\ notify = <<>>
  /\ budget' = budget - 1
  /\ logins' = logins + 1
  /\ UNCHANGED <<authLoading, store, fbUser, notify, resolved, signOuts, lastLogin>>
  /\ UNCHANGED <<user, selectedRepo, inst, viewVars, runs, loads, opens, saves, deletes, remote>>
  /\ UNCHANGED <<repoVars, formVars>>

\* PopupResult of a login() whose catch block ends the session
PopupResultClearing(outcome) ==
  /\ logins > 0
  /\ notify = <<>>
  /\ logins' = logins - 1
  /\ IF outcome = "served"
       THEN /\ fbUser' = TRUE
            /\ notify' = Append(notify, TRUE)
            /\ resolved' = resolved + 1
            /\ UNCHANGED <<lastLogin, store, user, selectedRepo, inst, viewVars, loads,
                           repoVars>>
       ELSE /\ lastLogin' = [ok |-> FALSE, seen |-> LoginReturn(FALSE)]
            /\ SetUser(NoUser)
            /\ store' = EmptyStore
            /\ UNCHANGED <<fbUser, notify, resolved, repos, upstreamRepos>>
  /\ UNCHANGED <<authLoading, signOuts>>
  /\ UNCHANGED <<runs, opens, saves, deletes, remote, budget>>
  /\ UNCHANGED formVars

\* signInWithPopup settles.  On success the identity provider holds the user
\* and notifies the observer; the continuation of login() (54-71) runs as its
\* own step, before or after the observer.  On failure the catch block runs
\* (72-74): console.error, nothing else.  A settled promise of the provider is
\* a later task than the notifications already queued.
PopupResult(outcome) ==
  /\ logins > 0
  /\ notify = <<>>
  /\ logins' = logins - 1
  /\ IF outcome = "served"
       THEN /\ fbUser' = TRUE
            /\ notify' = Append(notify, TRUE)
            /\ resolved' = resolved + 1
            /\ UNCHANGED lastLogin
       ELSE /\ lastLogin' = [ok |-> FALSE, seen |-> LoginReturn(FALSE)]
            /\ UNCHANGED <<fbUser, notify, resolved>>
  /\ UNCHANGED <<authLoading, store, signOuts>>
  /\ UNCHANGED <<user, selectedRepo, inst, viewVars, runs, loads, opens, saves, deletes, remote,
                 budget>>
  /\ UNCHANGED <<repoVars, formVars>>

\* login() after its await, the popup having succeeded (AuthContext 54-71)
LoginContinue ==
  /\ resolved > 0
  /\ resolved' = resolved - 1
  /\ store' = FullStore
  /\ SetUser(SignedIn)
  /\ lastLogin' = [ok |-> TRUE, seen |-> LoginReturn(TRUE)]
  /\ UNCHANGED <<authLoading, fbUser, notify, logins, signOuts>>
  /\ UNCHANGED <<runs, opens, saves, deletes, remote, budget, repos, upstreamRepos, formVars>>

\* the logout button (App 147-152), not under the dialog or the action sheet:
\* logout() up to its await (AuthContext 77-78)
logout ==
  /\ budget > 0
  /\ MainShown /\ ~showCreateModal /\ ~showActions
  /\ budget' = budget - 1
  /\ signOuts' = signOuts + 1
  /\ UNCHANGED <<authLoading, store, fbUser, notify, logins, resolved, lastLogin>>
  /\ UNCHANGED <<user, selectedRepo, inst, viewVars, runs, loads, opens, saves, deletes, remote>>
  /\ UNCHANGED <<repoVars, formVars>>

\* signOut settles.  Resolved: the provider drops its user and notifies the
\* observer, and logout() goes on (79-81).  Rejected: logout() has no try
\* block, the rejection leaves it at line 78.
SignOutResponse(outcome) ==
  /\ signOuts > 0
  /\ notify = <<>>
  /\ signOuts' = signOuts - 1
  /\ IF outcome = "served"
       THEN /\ fbUser' = FALSE
            /\ notify' = Append(notify, FALSE)
            /\ SetUser(NoUser)
            /\ store' = EmptyStore
       ELSE UNCHANGED <<fbUser, notify, store, user, selectedRepo, inst, viewVars, loads,
                        dataLoading, listReqs>>
  /\ UNCHANGED <<authLoading, logins, resolved, lastLogin>>
  /\ UNCHANGED <<runs, opens, saves, deletes, remote, budget, repos, upstreamRepos, formVars>>

\* ------------------------------------------- App: repository list, create
\* upstream answers fetchRepos with the account's repositories as they were at
\* some moment between the request and the answer (data); loadRepos after its
\* await (App 46-52, github.ts 12-18)
RepoListResponse(l, outcome, data) ==
  /\ l \in BagToSet(listReqs)
  /\ data \in {l.snapshot, upstreamRepos}
  /\ listReqs' = BagRemove(listReqs, l)
  /\ repos' = IF outcome = "served" /\ l.token = Token THEN data ELSE repos
  /\ dataLoading' = FALSE
  /\ UNCHANGED <<user, selectedRepo, inst, viewVars, runs, loads, opens, saves, deletes, remote,
                 budget>>
  /\ UNCHANGED <<sessVars, upstreamRepos, formVars>>

\* the values the dialog's fields can be given
Names == {"", ExistingRepo, NewName}
Descriptions == {"", "about"}
GITIGNORE_TEMPLATES == {"None", "Node"}
LICENSE_TEMPLATES == {"None", "mit"}

\* the create dialog is rendered (App 174-293)
DialogShown == MainShown /\ showCreateModal

\* RepoList's onCreateRepo (App 166)
OpenCreate ==
  /\ budget > 0
  /\ RepoListShown
  /\ budget' = budget - 1
  /\ showCreateModal' = TRUE
  /\ UNCHANGED <<creatingRepo, newRepoName, newRepoDesc, isPrivate, autoInit, gitignore,
                 license, errorMsg, creates>>
  /\ UNCHANGED <<user, selectedRepo, inst, viewVars, runs, loads, opens, saves, deletes, remote>>
  /\ UNCHANGED <<sessVars, repoVars>>

\* the backdrop or the X button (App 180, 193)
CloseCreate ==
  /\ budget > 0
  /\ DialogShown
  /\ budget' = budget - 1
  /\ showCreateModal' = FALSE
  /\ UNCHANGED <<creatingRepo, newRepoName, newRepoDesc, isPrivate, autoInit, gitignore,
                 license, errorMsg, creates>>
  /\ UNCHANGED <<user, selectedRepo, inst, viewVars, runs, loads, opens, saves, deletes, remote>>
  /\ UNCHANGED <<sessVars, repoVars>>

\* a field of the dialog is changed (App 212, 223-229, 242, 254, 262, 272)
FormChange(name, desc, priv, init, ignore, lic) ==
  /\ budget > 0
  /\ DialogShown
  /\ name \in Names /\ desc \in Descriptions /\ priv \in BOOLEAN /\ init \in BOOLEAN
  /\ ignore \in GITIGNORE_TEMPLATES /\ lic \in LICENSE_TEMPLATES
  \* one field per event
  /\ Cardinality({k \in 1..6 :
        <<name, desc, priv, init, ignore, lic>>[k]
          # <<newRepoName, newRepoDesc, isPrivate, autoInit, gitignore, license>>[k]}) = 1
  /\ budget' = budget - 1
  /\ newRepoName' = name
  /\ newRepoDesc' = desc
  /\ isPrivate' = priv
  /\ autoInit' = init
  /\ gitignore' = ignore
  /\ license' = lic
  /\ UNCHANGED <<showCreateModal, creatingRepo, errorMsg, creates>>
  /\ UNCHANGED <<user, selectedRepo, inst, viewVars, runs, loads, opens, saves, deletes, remote>>
  /\ UNCHANGED <<sessVars, repoVars>>

\* whether an optional template argument is given (github.ts 37, 42)
Given(template) == template # "" /\ template # "None"

\* createRepo whose license branch adds the template without forcing the README
createRepoLicenseUnforced(token, name, description, priv, init, gitignoreTemplate, licenseTemplate) ==
  LET body0 == [name |-> name, description |-> description, private |-> priv,
                auto_init |-> init]
      body1 == IF gitignoreTemplate # "" /\ gitignoreTemplate # "None"
                 THEN ("gitignore_template" :> gitignoreTemplate)
                        @@ [body0 EXCEPT !.auto_init = TRUE]
                 ELSE body0
      body2 == IF licenseTemplate # "" /\ licenseTemplate # "None"
                 THEN ("license_template" :> licenseTemplate) @@ body1
                 ELSE body1
  IN [token |-> token, body |-> body2]

\* createRepo's request (github.ts 21-51)
createRepo(token, name, description, priv, init, gitignoreTemplate, licenseTemplate) ==
  LET body0 == [name |-> name, description |-> description, private |-> priv,
                auto_init |-> init]
      body1 == IF Given(gitignoreTemplate)
                 THEN ("gitignore_template" :> gitignoreTemplate)
                        @@ [body0 EXCEPT !.auto_init = TRUE]
                 ELSE body0
      body2 == IF Given(licenseTemplate)
                 THEN ("license_template" :> licenseTemplate)
                        @@ [body1 EXCEPT !.auto_init = TRUE]
                 ELSE body1
  IN [token |-> token, body |-> body2]

\* the Create button (App 284-290): handleCreateRepo up to its await (63-76).
\* A pending call keeps the repos and the arguments of the render it was made in.
handleCreateRepo ==
  /\ budget > 0
  /\ DialogShown /\ ~creatingRepo /\ newRepoName # ""
  /\ budget' = budget - 1
  /\ IF user.githubToken = NoToken
       THEN UNCHANGED <<creatingRepo, errorMsg, creates>>
       ELSE /\ creatingRepo' = TRUE
            /\ errorMsg' = ""
            /\ creates' = BagAdd(creates,
                 [req |-> createRepo(user.githubToken, newRepoName, newRepoDesc, isPrivate,
                                     autoInit, gitignore, license),
                  args |-> [autoInit |-> autoInit, gitignore |-> gitignore,
                            license |-> license],
                  repos |-> repos])
  /\ UNCHANGED <<showCreateModal, newRepoName, newRepoDesc, isPrivate, autoInit, gitignore,
                 license>>
  /\ UNCHANGED <<user, selectedRepo, inst, viewVars, runs, loads, opens, saves, deletes, remote>>
  /\ UNCHANGED <<sessVars, repoVars>>

\* upstream: how a create request can be answered
CreateOutcomes == {"served", "error", "nomessage"}
NameExistsMsg == "name already exists on this account"
ServerErrorMsg == "Server Error"
CreateFallbackMsg == "Failed to create repository"

\* upstream: the create request is accepted
CreateAccepted(req, outcome) ==
  outcome = "served" /\ req.token = Token /\ req.body.name \notin Range(upstreamRepos)

\* upstream: the message of a non-2xx answer ("" when the body carries none)
CreateMessage(req, outcome) ==
  IF outcome = "served" THEN NameExistsMsg
  ELSE IF outcome = "error" THEN ServerErrorMsg
  ELSE ""

\* CreateErrorText with a fixed text instead of the upstream message
CreateErrorTextGeneric(message) == CreateFallbackMsg

\* the text of the error createRepo throws and handleCreateRepo shows
\* (github.ts 55, App 82): err.message || 'Failed to create repository'
CreateErrorText(message) == IF message # "" THEN message ELSE CreateFallbackMsg

\* resetForm (App 55-61): autoInit is not reset
resetForm ==
  /\ newRepoName' = ""
  /\ newRepoDesc' = ""
  /\ isPrivate' = FALSE
  /\ gitignore' = "None"
  /\ license' = "None"
  /\ UNCHANGED autoInit

\* upstream answers createRepo; handleCreateRepo after its await (App 77-85,
\* github.ts 53-57)
CreateResponse(c, outcome) ==
  /\ c \in BagToSet(creates)
  /\ creates' = BagRemove(creates, c)
  /\ creatingRepo' = FALSE
  /\ IF CreateAccepted(c.req, outcome)
       THEN /\ upstreamRepos' = <<c.req.body.name>> \o upstreamRepos
            /\ repos' = <<c.req.body.name>> \o c.repos
            /\ showCreateModal' = FALSE
            /\ resetForm
            /\ selectedRepo' = TRUE
            /\ ExplorerEffect(user, TRUE)
            /\ UNCHANGED errorMsg
       ELSE /\ errorMsg' = CreateErrorText(CreateMessage(c.req, outcome))
            /\ UNCHANGED <<upstreamRepos, repos, showCreateModal, newRepoName, newRepoDesc,
                           isPrivate, autoInit, gitignore, license, selectedRepo, inst,
                           viewVars, loads>>
  /\ UNCHANGED <<user, runs, opens, saves, deletes, remote, budget>>
  /\ UNCHANGED <<sessVars, dataLoading, listReqs>>

\* ------------------------------------- handleFileUpload (142-186), steps
\* the change event of one of the two inputs: the handler up to its first await
handleFileUpload(input, files) ==
  /\ budget > 0
  /\ mounted /\ viewingFile = NoFile /\ showActions
  /\ files \in Picks(input) \cup {<<>>}
  /\ files # inputValue[input]
  /\ budget' = budget - 1
  /\ showActions' = FALSE
  /\ inputValue' = [inputValue EXCEPT ![input] = files]
  /\ IF Len(files) = 0 \/ user.githubToken = NoToken
       THEN UNCHANGED <<uploading, statusMsg, runs>>
       ELSE /\ Len(runs) < MaxRuns
            /\ LET start == EnterSelection(NewRun(files), 1)
               IN /\ uploading' = TRUE
                  /\ statusMsg' = Last(<<ProcessingMsg(Len(files))>> \o start.msgs)
                  /\ runs' = Append(runs, start.run)
  /\ UNCHANGED <<user, selectedRepo, inst, path, contents, loading, viewingFile, fileContent,
                 isEditing, editContent, loads, opens, saves, deletes, remote>>
  /\ UNCHANGED appVars

AwaitingRead(run) == run.pc = "read"

\* AwaitingPut of a pipeline that is cancelled when its component unmounts
AwaitingPutWhileMounted(run) == run.pc = "put" /\ Live(run.inst)

AwaitingPut(run) == run.pc = "put"

\* the local reads of run r's current unit resolve: the run goes on to its
\* next await
UploadRead(r) ==
  /\ r \in 1..Len(runs)
  /\ AwaitingRead(runs[r])
  /\ ApplyRun(r, AfterRead(runs[r]))
  /\ UNCHANGED <<user, selectedRepo, inst, path, contents, viewingFile, fileContent,
                 isEditing, editContent, showActions, opens, saves, deletes, remote, budget>>
  /\ UNCHANGED appVars

\* upstream answers run r's putFile and the run goes on to its next await
UploadPutResponse(r, outcome) ==
  /\ r \in 1..Len(runs)
  /\ AwaitingPut(runs[r])
  /\ remote' = StoreAfterPut(runs[r].req, outcome)
  /\ LET status == PutStatus(runs[r].req, outcome)
     IN ApplyRun(r, AfterPut([runs[r] EXCEPT !.lastStatus = status], ~ResponseOk(status)))
  /\ UNCHANGED <<user, selectedRepo, inst, path, contents, viewingFile, fileContent,
                 isEditing, editContent, showActions, opens, saves, deletes, budget>>
  /\ UNCHANGED appVars

\* ------------------------------------------------ handleFileClick (83-99)
handleFileClick(e) ==
  /\ budget > 0
  /\ ListClickable
  /\ \E k \in 1..Len(contents) : contents[k] = e
  /\ e.type = "file"
  /\ budget' = budget - 1
  /\ IF user.githubToken = NoToken
       THEN UNCHANGED <<loading, opens>>
       ELSE /\ loading' = TRUE
            /\ opens' = BagAdd(opens, [token |-> user.githubToken, file |-> e, inst |-> inst])
  /\ UNCHANGED <<user, selectedRepo, inst, path, contents, viewingFile, fileContent,
                 isEditing, editContent, uploading, statusMsg, showActions, inputValue,
                 runs, loads, saves, deletes, remote>>
  /\ UNCHANGED appVars

OpenResponse(o, outcome) ==
  /\ o \in BagToSet(opens)
  /\ opens' = BagRemove(opens, o)
  /\ LET res == GetContents(ServeGet(o.file.path, outcome))
         shown == ~res.threw /\ ~res.body.isArray /\ res.body.content # <<>>
         decoded == fromBase64(StripNewlines(res.body.content))
     IN IF Live(o.inst)
          THEN /\ viewingFile' = IF shown THEN o.file ELSE viewingFile
               /\ fileContent' = IF shown /\ ~decoded.threw THEN decoded.text ELSE fileContent
               /\ statusMsg' = IF res.threw \/ (shown /\ decoded.threw)
                                 THEN OpenErrorMsg ELSE statusMsg
               /\ loading' = FALSE
          ELSE UNCHANGED <<viewingFile, fileContent, statusMsg, loading>>
  /\ UNCHANGED <<user, selectedRepo, inst, path, contents, isEditing, editContent,
                 uploading, showActions, inputValue, runs, loads, saves, deletes,
                 remote, budget>>
  /\ UNCHANGED appVars

\* ------------------------------------------ the file view (lines 256-313)
FileViewShown == mounted /\ ~loading /\ viewingFile # NoFile

EditClick ==
  /\ budget > 0
  /\ FileViewShown /\ ~isEditing
  /\ budget' = budget - 1
  /\ editContent' = fileContent
  /\ isEditing' = TRUE
  /\ UNCHANGED <<user, selectedRepo, inst, path, contents, loading, viewingFile, fileContent,
                 uploading, statusMsg, showActions, inputValue, runs, loads, opens, saves,
                 deletes, remote>>
  /\ UNCHANGED appVars

EditChange(text) ==
  /\ budget > 0
  /\ FileViewShown /\ isEditing
  /\ text \in Texts /\ text # editContent
  /\ budget' = budget - 1
  /\ editContent' = text
  /\ UNCHANGED <<user, selectedRepo, inst, path, contents, loading, viewingFile, fileContent,
                 isEditing, uploading, statusMsg, showActions, inputValue, runs, loads,
                 opens, saves, deletes, remote>>
  /\ UNCHANGED appVars

CancelEdit ==
  /\ budget > 0
  /\ FileViewShown /\ isEditing
  /\ budget' = budget - 1
  /\ isEditing' = FALSE
  /\ UNCHANGED <<user, selectedRepo, inst, path, contents, loading, viewingFile, fileContent,
                 editContent, uploading, statusMsg, showActions, inputValue, runs, loads,
                 opens, saves, deletes, remote>>
  /\ UNCHANGED appVars

\* whether the fingerprint of a request is the one stored for its path now
Current(req) == req.path \in DOMAIN remote /\ req.sha = Sha(remote[req.path])

\* ------------------------------------------------ handleSaveFile (117-140)
\* the fingerprint handleSaveFile passes to putFile
SaveSha(file) == file.sha

handleSaveFile ==
  /\ budget > 0
  /\ FileViewShown /\ isEditing /\ ~uploading
  /\ budget' = budget - 1
  /\ IF user.githubToken = NoToken
       THEN UNCHANGED <<uploading, saves>>
       ELSE /\ uploading' = TRUE
            /\ LET req == PutRequest(user.githubToken, viewingFile.path,
                                     toBase64(editContent), SaveSha(viewingFile))
               IN saves' = BagAdd(saves, [req |-> req, editContent |-> editContent,
                                          inst |-> inst, current |-> Current(req)])
  /\ UNCHANGED <<user, selectedRepo, inst, path, contents, loading, viewingFile, fileContent,
                 isEditing, editContent, statusMsg, showActions, inputValue, runs, loads,
                 opens, deletes, remote>>
  /\ UNCHANGED appVars

\* SaveResponse leaving editing mode whatever the answer
SaveResponseClosing(sv, outcome) ==
  /\ sv \in BagToSet(saves)
  /\ saves' = BagRemove(saves, sv)
  /\ remote' = StoreAfterPut(sv.req, outcome)
  /\ LET ok == ResponseOk(PutStatus(sv.req, outcome))
     IN IF Live(sv.inst)
          THEN /\ fileContent' = IF ok THEN sv.editContent ELSE fileContent
               /\ isEditing' = FALSE
               /\ statusMsg' = IF ok THEN SavedMsg ELSE SaveErrorMsg
               /\ uploading' = FALSE
          ELSE UNCHANGED <<fileContent, isEditing, statusMsg, uploading>>
  /\ UNCHANGED <<user, selectedRepo, inst, path, contents, loading, viewingFile, editContent,
                 showActions, inputValue, runs, loads, opens, deletes, budget>>
  /\ UNCHANGED appVars

\* putFile has answered handleSaveFile (lines 131-139)
SaveResponse(sv, outcome) ==
  /\ sv \in BagToSet(saves)
  /\ saves' = BagRemove(saves, sv)
  /\ remote' = StoreAfterPut(sv.req, outcome)
  /\ LET ok == ResponseOk(PutStatus(sv.req, outcome))
     IN IF Live(sv.inst)
          THEN /\ fileContent' = IF ok THEN sv.editContent ELSE fileContent
               /\ isEditing' = IF ok THEN FALSE ELSE isEditing
               /\ statusMsg' = IF ok THEN SavedMsg ELSE SaveErrorMsg
               /\ uploading' = FALSE
          ELSE UNCHANGED <<fileContent, isEditing, statusMsg, uploading>>
  /\ UNCHANGED <<user, selectedRepo, inst, path, contents, loading, viewingFile, editContent,
                 showActions, inputValue, runs, loads, opens, deletes, budget>>
  /\ UNCHANGED appVars

\* -------------------------------------------------- handleDelete (101-115)
\* the trash button of the file view, confirm() answered yes
handleDelete ==
  /\ budget > 0
  /\ FileViewShown
  /\ budget' = budget - 1
  /\ IF user.githubToken = NoToken
       THEN UNCHANGED <<uploading, deletes>>
       ELSE /\ uploading' = TRUE
            /\ LET req == DeleteRequest(user.githubToken, viewingFile.path, viewingFile.sha)
               IN deletes' = BagAdd(deletes, [req |-> req, path |-> path, inst |-> inst,
                                              current |-> Current(req)])
  /\ UNCHANGED <<user, selectedRepo, inst, path, contents, loading, viewingFile, fileContent,
                 isEditing, editContent, statusMsg, showActions, inputValue, runs, loads,
                 opens, saves, remote>>
  /\ UNCHANGED appVars

DeleteResponse(d, outcome) ==
  /\ d \in BagToSet(deletes)
  /\ deletes' = BagRemove(deletes, d)
  /\ remote' = StoreAfterDelete(d.req, outcome)
  /\ LET ok == ResponseOk(DeleteStatus(d.req, outcome))
     IN /\ loads' = IF ok THEN BagAdd(loads, LoadCall(d.req.token, d.path, d.inst)) ELSE loads
        /\ IF Live(d.inst)
             THEN /\ viewingFile' = IF ok THEN NoFile ELSE viewingFile
                  /\ loading' = IF ok THEN TRUE ELSE loading
                  /\ statusMsg' = IF ok THEN DeletedMsg ELSE DeleteErrorMsg
                  /\ uploading' = FALSE
             ELSE UNCHANGED <<viewingFile, loading, statusMsg, uploading>>
  /\ UNCHANGED <<user, selectedRepo, inst, path, contents, fileContent, isEditing,
                 editContent, showActions, inputValue, runs, opens, saves, budget>>
  /\ UNCHANGED appVars

\* ------------------------------------------------------- specifications
Next ==
  \/ \E l \in BagToSet(loads), o \in Outcomes : LoadResponse(l, o)
  \/ \E e \in Range(contents) : handleNavigate(e)
  \/ handleNavigateUp
  \/ \E k \in 0..Len(path) : Breadcrumb(k)
  \/ OpenActions
  \/ CloseActions
  \/ SelectRepo
  \/ GoHome
  \/ AuthStateChanged
  \/ login
  \/ \E o \in Outcomes : PopupResult(o)
  \/ LoginContinue
  \/ logout
  \/ \E o \in Outcomes : SignOutResponse(o)
  \/ \E l \in BagToSet(listReqs), o \in Outcomes :
       \E data \in {l.snapshot, upstreamRepos} : RepoListResponse(l, o, data)
  \/ OpenCreate
  \/ CloseCreate
  \/ \E name \in Names, desc \in Descriptions, priv \in BOOLEAN, init \in BOOLEAN,
        ignore \in GITIGNORE_TEMPLATES, lic \in LICENSE_TEMPLATES :
       FormChange(name, desc, priv, init, ignore, lic)
  \/ handleCreateRepo
  \/ \E c \in BagToSet(creates), o \in CreateOutcomes : CreateResponse(c, o)
  \/ \E input \in Inputs : \E files \in Picks(input) \cup {<<>>} : handleFileUpload(input, files)
  \/ \E r \in 1..Len(runs) : UploadRead(r)
  \/ \E r \in 1..Len(runs), o \in Outcomes : UploadPutResponse(r, o)
  \/ \E e \in Range(contents) : handleFileClick(e)
  \/ \E x \in BagToSet(opens), o \in Outcomes : OpenResponse(x, o)
  \/ EditClick
  \/ \E t \in Texts : EditChange(t)
  \/ CancelEdit
  \/ handleSaveFile
  \/ \E x \in BagToSet(saves), o \in Outcomes : SaveResponse(x, o)
  \/ handleDelete
  \/ \E x \in BagToSet(deletes), o \in Outcomes : DeleteResponse(x, o)

Spec == Init /\ [][Next]_vars

\* a step of some upload run: a local read resolves or a putFile is answered
RunStep ==
  \E r \in 1..MaxRuns :
    UploadRead(r) \/ \E o \in Outcomes : UploadPutResponse(r, o)

\* the event loop runs the continuation of a resolved promise, and every
\* request is answered: a run that can take a step is not left waiting forever
Fairness == WF_vars(RunStep)

FairSpec == InitWith(MaxFairOps) /\ [][Next]_vars /\ Fairness

\* the explorer opened on a repository with names in both cases
ListSpec == ListInit /\ [][Next]_vars

\* the program from the moment the page loads
AppSpec == AppInit /\ [][Next]_vars

\* the same, with the two events that follow a successful popup taking place:
\* the observer's callback and the continuation of login() are queued by the
\* settled promise and run
AuthFairness == WF_vars(AuthStateChanged) /\ WF_vars(LoginContinue)
AuthFairSpec == AppInit /\ [][Next]_vars /\ AuthFairness

\* =============================================================== claims
Terminal == {"done", "failed"}

RunIds == 1..Len(runs)

\* joinPath of the specification
joinPath(dir, name) == IF dir = <<>> THEN name ELSE dir \o <<"/">> \o name

IsZipSelection(file) ==
  Len(file.name) >= 4 /\ SubSeq(file.name, Len(file.name) - 3, Len(file.name)) = <<".", "z", "i", "p">>

\* the non-directory entry names of an archive, in the archive's order
RECURSIVE FileEntryNames(_)
FileEntryNames(entries) ==
  IF entries = <<>> THEN <<>>
  ELSE (IF Head(entries).dir THEN <<>> ELSE <<Head(entries).name>>)
       \o FileEntryNames(Tail(entries))

\* the relative names of the upload units of a sequence of selections: each
\* archive replaced in place by its non-directory entries
RECURSIVE UnitNames(_)
UnitNames(files) ==
  IF files = <<>> THEN <<>>
  ELSE (IF IsZipSelection(Head(files))
          THEN FileEntryNames(Head(files).entries)
          ELSE <<IF Head(files).webkitRelativePath = <<>>
                   THEN Head(files).name ELSE Head(files).webkitRelativePath>>)
       \o UnitNames(Tail(files))

\* C1: when the write for the k-th unit of a run fails, no write is issued for a
\* later unit (at every moment at most one issued write is not committed),
\* exactly the k-1 writes before it are committed, and the status the run
\* leaves is the failure status, never "Upload complete!".
C1_FailureStopsRun ==
  \A r \in RunIds :
    /\ Len(runs[r].writes) <= runs[r].committed + 1
    /\ runs[r].pc = "failed" =>
         /\ Len(runs[r].writes) = runs[r].committed + 1
         /\ runs[r].endStatus \in {UploadErrorMsg, Unmounted}
         /\ runs[r].endStatus # UploadCompleteMsg

\* the second of three units failed: one committed, status is the failure status
C1_Witness ==
  \E r \in RunIds :
    /\ runs[r].pc = "failed"
    /\ Len(UnitNames(runs[r].files)) = 3
    /\ Len(runs[r].writes) = 2
    /\ runs[r].committed = 1
    /\ runs[r].endStatus = UploadErrorMsg

\* C2: for an archive selection the run issues one write per non-directory
\* entry, to joinPath(currentDir, entryName), none for a directory entry and
\* none twice; once the loop has passed the archive every non-directory entry
\* has its write (an archive without non-directory entries has none).
C2_ArchiveWrites ==
  \A r \in RunIds :
    LET run == runs[r]
        ofSel(i) == {n \in 1..Len(run.writes) : run.writes[n].i = i}
    IN \A i \in 1..Len(run.files) :
         IsZipSelection(run.files[i]) =>
           LET es == run.files[i].entries
           IN /\ \A n \in ofSel(i) :
                   /\ run.writes[n].j \in 1..Len(es)
                   /\ ~es[run.writes[n].j].dir
                   /\ run.writes[n].path = joinPath(run.path, es[run.writes[n].j].name)
              /\ \A n, m \in ofSel(i) : run.writes[n].j = run.writes[m].j => n = m
              /\ run.i > i =>
                   \A j \in 1..Len(es) :
                     ~es[j].dir => \E n \in ofSel(i) : run.writes[n].j = j

\* z.zip (c, d/, d/c) uploaded in directory d: two writes, d/c and d/d/c
C2_Witness ==
  \E r \in RunIds :
    /\ runs[r].pc = "done"
    /\ runs[r].files = <<ZipZ>>
    /\ runs[r].path = <<"d">>
    /\ Len(runs[r].writes) = 2
    /\ runs[r].writes[1].path = <<"d", "/", "c">>
    /\ runs[r].writes[2].path = <<"d", "/", "d", "/", "c">>

\* C3: at most one write of the upload pipeline is in flight at any moment.
C3_OneWriteInFlight ==
  Cardinality({r \in RunIds : runs[r].pc = "put"}) <= 1

\* C4: the writes of a run are, in order, the selections as supplied with each
\* archive replaced in place by its non-directory entries in the archive's
\* order: always a prefix of that sequence, and all of it when the run completes.
C4_WriteOrder ==
  \A r \in RunIds :
    LET run == runs[r]
        names == UnitNames(run.files)
    IN /\ Len(run.writes) <= Len(names)
       /\ \A n \in 1..Len(run.writes) : run.writes[n].path = joinPath(run.path, names[n])
       /\ run.pc = "done" => Len(run.writes) = Len(names)

\* z.zip then a, in directory d, completed: d/c, d/d/c, d/a in that order
C4_Witness ==
  \E r \in RunIds :
    /\ runs[r].pc = "done"
    /\ runs[r].files = <<ZipZ, PlainA>>
    /\ Len(runs[r].writes) = 3
    /\ runs[r].writes[3].path = <<"d", "/", "a">>

\* C5: every run that has ended, with success or with a failed write, has
\* refreshed the directory listing exactly once.
C5_RefreshOnceAfterRun ==
  \A r \in RunIds : runs[r].pc \in Terminal => runs[r].refreshes = 1

\* C6: when a run ends with every write successful, the status message its
\* component holds once the handler has returned is "Upload complete!".
C6_CompletedStatus ==
  \A r \in RunIds :
    (runs[r].pc = "done" /\ runs[r].endStatus # Unmounted) =>
      runs[r].endStatus = UploadCompleteMsg

\* C7: a run over n upload units makes at least n status updates, one per file,
\* between its start and its terminal status.
C7_StatusPerFile ==
  \A r \in RunIds :
    runs[r].pc = "done" => runs[r].updates >= Len(UnitNames(runs[r].files))

\* C8: a started run reaches a terminal state when every request is answered,
\* and no user event (navigation, opening a file, leaving the repository,
\* logging out) changes a started run: its position, the directory and token it
\* captured and its pending request stay as they are.
C8_RunTerminates ==
  /\ \A r \in 1..MaxRuns :
       (r <= Len(runs)) ~> (r <= Len(runs) /\ runs[r].pc \in Terminal)
  /\ [][budget' # budget => \A r \in RunIds : runs'[r] = runs[r]]_vars

\* a run that sent its second write after its component was unmounted, and
\* completed
C8_Witness ==
  \E r \in RunIds :
    /\ runs[r].pc = "done"
    /\ runs[r].endStatus = Unmounted
    /\ Len(runs[r].writes) = 2
    /\ ~runs[r].writes[2].live
    /\ runs[r].committed = 2

\* C9: the fingerprint sent with a save or a delete is the one stored upstream
\* for the path when the request is sent.
C9_FreshFingerprint ==
  /\ \A sv \in BagToSet(saves) : sv.current
  /\ \A d \in BagToSet(deletes) : d.current

\* C10: when upstream answers a write of the upload pipeline whose target path
\* exists, the write carried no fingerprint, the stored content (and with it
\* the fingerprint) of every path is unchanged, and the run fails at that unit.
C10_ExistingPathRejected ==
  [][\A r \in RunIds :
       (runs[r].pc = "put" /\ runs'[r].pc # "put" /\ runs[r].req.path \in DOMAIN remote) =>
         /\ runs[r].req.sha = NoSha
         /\ remote' = remote
         /\ runs'[r].pc = "failed"
         /\ Len(runs'[r].writes) = Len(runs[r].writes)]_vars

\* file a uploaded to the root, where a exists: answered 422, a keeps its content
C10_Witness ==
  \E r \in RunIds :
    /\ runs[r].pc = "failed"
    /\ runs[r].lastStatus = 422
    /\ runs[r].req.path = <<"a">>
    /\ runs[r].req.content # toBase64(TextA)
    /\ remote[<<"a">>] = toBase64(TextA)

\* C11: when a logout() call settles, whatever signOut answered, the session
\* holds no user and sessionStorage holds neither token nor username.
C11_LogoutClears ==
  [][signOuts' < signOuts => (~user'.present /\ store' = EmptyStore)]_vars

\* C12: while no session exists (logout has completed and nobody has logged in
\* again), no request is sent to the source-control API: no upload run sends a
\* write and no listing is requested.
C12_NoRequestAfterLogout ==
  [][(~authLoading /\ ~user.present /\ ~user'.present) =>
       /\ \A r \in RunIds : Len(runs'[r].writes) = Len(runs[r].writes)
       /\ BagCardinality(loads') <= BagCardinality(loads)
       /\ BagCardinality(listReqs') <= BagCardinality(listReqs)]_vars

\* C13: a step in which login() fails (the popup is rejected or closed) leaves
\* the user, the loading flag and sessionStorage as they were, and with them
\* everything displayed.
C13_FailedLoginChangesNothing ==
  [][(logins' < logins /\ resolved' = resolved) =>
       UNCHANGED <<user, authLoading, store, selectedRepo, viewVars, repos, dataLoading,
                   showCreateModal, newRepoName, newRepoDesc, errorMsg>>]_vars

\* a login() failed while a session opened by another login() call exists, and
\* the session is still there
C13_Witness ==
  /\ lastLogin.seen.settled = "fulfilled"
  /\ ~lastLogin.ok
  /\ user = SignedIn
  /\ store = FullStore
  /\ logins = 0

\* C14: what the caller of a failed login() observes differs from what the
\* caller of a successful login() observes.
C14_LoginFailureReported ==
  (lastLogin.seen.settled # "none" /\ ~lastLogin.ok) => lastLogin.seen # LoginReturn(TRUE)

\* C15: while the session holds no bearer token, no user event and no effect
\* sends a request (loadRepos, loadContents and the handlers return at their
\* first line), and a call of handleCreateRepo, handleFileClick, handleDelete,
\* handleSaveFile or handleFileUpload leaves the repository list, the directory
\* listing, the open file, the status message and the create dialog's error as
\* they were.
C15_NoTokenNoOp ==
  /\ [][(user'.githubToken = NoToken /\ (budget' < budget \/ notify' # notify)) =>
          /\ UNCHANGED <<listReqs, loads, opens, saves, deletes, creates>>
          /\ Len(runs') = Len(runs)]_vars
  /\ [][(/\ user.githubToken = NoToken
         /\ \/ handleCreateRepo
            \/ \E e \in Range(contents) : handleFileClick(e)
            \/ handleDelete
            \/ handleSaveFile
            \/ \E input \in Inputs : \E files \in Picks(input) \cup {<<>>} :
                 handleFileUpload(input, files)) =>
          UNCHANGED <<repos, contents, viewingFile, fileContent, statusMsg, errorMsg,
                      loading, uploading, creatingRepo, dataLoading, runs, remote,
                      upstreamRepos>>]_vars

\* files were picked in an explorer whose session has no token: nothing started
C15_Witness ==
  /\ mounted
  /\ user.githubToken = NoToken
  /\ \E x \in Inputs : inputValue[x] # <<>>
  /\ runs = <<>>
  /\ ~uploading
  /\ statusMsg = EmptyMsg

\* no request is added in this step to any of the requests awaiting an answer
NoNewRequest ==
  /\ loads' \sqsubseteq loads
  /\ opens' \sqsubseteq opens
  /\ saves' \sqsubseteq saves
  /\ deletes' \sqsubseteq deletes
  /\ listReqs' \sqsubseteq listReqs
  /\ creates' \sqsubseteq creates
  /\ Len(runs') = Len(runs)
  /\ \A r \in RunIds : Len(runs'[r].writes) = Len(runs[r].writes)

\* C16: no upload unit is written twice within a run, and the step in which a
\* list, read, save, delete or upload fails adds no request (nothing is
\* retried) and, when the component that started it is still mounted, ends
\* with that operation's error text as the status message.
C16_NoAutomaticRetry ==
  /\ [](\A r \in RunIds : \A n, m \in 1..Len(runs[r].writes) :
          (runs[r].writes[n].i = runs[r].writes[m].i
             /\ runs[r].writes[n].j = runs[r].writes[m].j) => n = m)
  /\ [][/\ \A l \in BagToSet(loads), o \in Outcomes :
             (LoadResponse(l, o) /\ GetContents(ServeGet(l.path, o)).threw) =>
               (NoNewRequest /\ (Live(l.inst) => statusMsg' = LoadErrorMsg))
        /\ \A x \in BagToSet(opens), o \in Outcomes :
             (OpenResponse(x, o) /\ GetContents(ServeGet(x.file.path, o)).threw) =>
               (NoNewRequest /\ (Live(x.inst) => statusMsg' = OpenErrorMsg))
        /\ \A x \in BagToSet(saves), o \in Outcomes :
             (SaveResponse(x, o) /\ ~ResponseOk(PutStatus(x.req, o))) =>
               (NoNewRequest /\ (Live(x.inst) => statusMsg' = SaveErrorMsg))
        /\ \A x \in BagToSet(deletes), o \in Outcomes :
             (DeleteResponse(x, o) /\ ~ResponseOk(DeleteStatus(x.req, o))) =>
               (NoNewRequest /\ (Live(x.inst) => statusMsg' = DeleteErrorMsg))
        /\ \A r \in RunIds : \A o \in Outcomes :
             (UploadPutResponse(r, o) /\ ~ResponseOk(PutStatus(runs[r].req, o))) =>
               /\ NoNewRequest
               /\ runs'[r].pc = "failed"
               /\ Live(runs[r].inst) => statusMsg' = UploadErrorMsg]_vars

\* an upload failed at its second write: the error text is shown and no request
\* of any kind is awaiting an answer
C16_Witness ==
  /\ \E r \in RunIds : runs[r].pc = "failed" /\ Len(runs[r].writes) = 2
  /\ \A r \in RunIds : runs[r].pc \in Terminal
  /\ statusMsg = UploadErrorMsg
  /\ loads = EmptyBag /\ opens = EmptyBag /\ saves = EmptyBag /\ deletes = EmptyBag

\* the repositories this client has created: upstream holds them and they were
\* not there when the page loaded
Created == Range(upstreamRepos) \ Range(InitialRepos)

\* C17: every repository a successful create added is in the known set in
\* every later state.
C17_CreatedStaysKnown ==
  \A n \in Created : n \in Range(repos)

\* C18: when the create request is answered non-2xx with message m, the step
\* leaves errorMsg = m and changes neither the known repositories, nor the
\* selected repository, nor the dialog (open or not) and its fields.
C18_CreateFailureShown ==
  [][\A c \in BagToSet(creates), o \in CreateOutcomes :
       (/\ CreateResponse(c, o)
        /\ ~CreateAccepted(c.req, o)
        /\ CreateMessage(c.req, o) # "") =>
         /\ errorMsg' = CreateMessage(c.req, o)
         /\ UNCHANGED <<repos, selectedRepo, showCreateModal, newRepoName, newRepoDesc,
                        isPrivate, autoInit, gitignore, license>>]_vars

\* creating r1, which exists: the dialog is open with the name in place and
\* shows the upstream message
C18_Witness ==
  /\ errorMsg = NameExistsMsg
  /\ showCreateModal
  /\ newRepoName = ExistingRepo
  /\ ~creatingRepo
  /\ ~selectedRepo
  /\ upstreamRepos = InitialRepos

\* the values createRepo's optional template arguments can take: omitted (""),
\* 'None', or a template
TemplateArgs == {"", "None", "Node", "mit"}

\* what C19 says of a request body built from (init, ignore, lic)
ForcedInit(body, init, ignore, lic) ==
  IF ignore \notin {"", "None"} \/ lic \notin {"", "None"}
    THEN body.auto_init = TRUE
    ELSE /\ body.auto_init = init
         /\ "gitignore_template" \notin DOMAIN body
         /\ "license_template" \notin DOMAIN body

\* C19: the body of a create request has auto_init = TRUE whenever a gitignore
\* or a license template other than 'None' is given, whatever the README
\* argument; with neither given, auto_init is the README argument and the body
\* has no template field. Checked for every request the dialog sends and for
\* every combination of the arguments, omitted ones included.
C19_TemplatesForceInit ==
  /\ \A c \in BagToSet(creates) :
       ForcedInit(c.req.body, c.args.autoInit, c.args.gitignore, c.args.license)
  /\ \A init \in BOOLEAN, ignore \in TemplateArgs, lic \in TemplateArgs :
       ForcedInit(createRepo(Token, NewName, "", FALSE, init, ignore, lic).body,
                  init, ignore, lic)

\* a request sent with the README box unticked and only a license chosen
C19_Witness ==
  \E c \in BagToSet(creates) :
    /\ ~c.args.autoInit
    /\ c.args.gitignore = "None"
    /\ c.args.license = "mit"
    /\ c.req.body.auto_init = TRUE
    /\ "license_template" \in DOMAIN c.req.body

\* the relative name of the unit a logged write belongs to: the archive entry's
\* name, or the selection's relative path (its name when it has none)
UnitName(run, w) ==
  LET f == run.files[w.i]
  IN IF IsZipSelection(f) THEN f.entries[w.j].name
     ELSE IF f.webkitRelativePath = <<>> THEN f.name ELSE f.webkitRelativePath

\* C20: the target of every write of an upload run is joinPath(currentDir,
\* relativeName): the relative name alone when the directory is empty,
\* otherwise the directory, exactly one "/" and the relative name; the
\* directory comes from navigation, and the target never starts with "/" nor
\* has "//" at the join.
C20_TargetIsJoin ==
  \A r \in RunIds :
    \A n \in 1..Len(runs[r].writes) :
      LET dir == runs[r].path
          w == runs[r].writes[n]
          name == UnitName(runs[r], w)
          d == Len(dir)
      IN /\ w.path = joinPath(dir, name)
         /\ dir = <<>> => w.path = name
         /\ dir # <<>> =>
              /\ Len(w.path) = d + 1 + Len(name)
              /\ SubSeq(w.path, 1, d) = dir
              /\ w.path[d + 1] = "/"
              /\ SubSeq(w.path, d + 2, Len(w.path)) = name
              /\ w.path[d] # "/"
              /\ w.path[d + 2] # "/"
         /\ w.path # <<>>
         /\ Head(w.path) # "/"

\* one run at the top level wrote a, another in directory d wrote d/f/a or d/a
C20_Witness ==
  \E r, q \in RunIds :
    /\ runs[r].path = <<>>
    /\ Len(runs[r].writes) = 1
    /\ runs[r].writes[1].path = <<"a">>
    /\ runs[q].path = <<"d">>
    /\ Len(runs[q].writes) >= 1
    /\ runs[q].writes[1].path \in {<<"d", "/", "a">>, <<"d", "/", "f", "/", "a">>}

\* status codes an answer to a listing request can carry
ListStatuses == {200, 204, 301, 401, 403, 404, 500}

\* C21: a 404 answer to a listing request makes getContents return an empty
\* listing without throwing: the step that delivers it leaves an empty folder,
\* ends the loading state and sets no error status; every other non-2xx
\* answer throws, and its step sets the load error status and keeps the
\* listing.
C21_NotFoundIsEmpty ==
  /\ \A st \in ListStatuses :
       LET res == GetContents([status |-> st, body |-> NoBody])
       IN /\ st = 404 => (~res.threw /\ res.body.isArray /\ res.body.data = <<>>)
          /\ (st \notin 200..299 /\ st # 404) => res.threw
          /\ st \in 200..299 => ~res.threw
  /\ [][\A l \in BagToSet(loads), o \in Outcomes :
          (LoadResponse(l, o) /\ Live(l.inst)) =>
            LET st == ServeGet(l.path, o).status
            IN /\ st = 404 =>
                    (contents' = <<>> /\ statusMsg' = statusMsg /\ ~loading')
               /\ (st \notin 200..299 /\ st # 404) =>
                    (contents' = contents /\ statusMsg' = LoadErrorMsg /\ ~loading')]_vars

\* d/b, the only file under d, was deleted while d was shown: the reload of d
\* was answered 404 and the view is an empty folder; the status is the one the
\* delete left, not an error
C21_Witness ==
  /\ mounted
  /\ path = <<"d">>
  /\ PathsUnder(path) = {}
  /\ loads = EmptyBag
  /\ contents = <<>>
  /\ ~loading
  /\ statusMsg = DeletedMsg
  /\ viewingFile = NoFile

\* code-unit order of two names, the case-sensitive lexicographic order
RECURSIVE CodeUnitLess(_, _)
CodeUnitLess(a, b) ==
  IF b = <<>> THEN FALSE
  ELSE IF a = <<>> THEN TRUE
  ELSE IF Head(a) # Head(b) THEN CodePoint(Head(a)) < CodePoint(Head(b))
  ELSE CodeUnitLess(Tail(a), Tail(b))

\* C22: every listing loadContents stores is a permutation of the entries
\* received, with every directory entry before every file entry and, inside
\* each kind, the names in case-sensitive lexicographic order.
C22_ListingSorted ==
  [][\A l \in BagToSet(loads) :
       LET res == GetContents(ServeGet(l.path, "served"))
           data == res.body.data
       IN (LoadResponse(l, "served") /\ Live(l.inst) /\ ~res.threw /\ res.body.isArray) =>
            /\ Len(contents') = Len(data)
            /\ Range(contents') = Range(data)
            /\ \A i, j \in 1..Len(contents') :
                 i < j =>
                   /\ ~(contents'[i].type = "file" /\ contents'[j].type = "dir")
                   /\ contents'[i].type = contents'[j].type =>
                        CodeUnitLess(contents'[i].name, contents'[j].name)]_vars

\* code points at the edges of the one-, two-, three- and four-byte ranges of
\* UTF-8, surrogates left out: a string is a sequence of Unicode characters
SampleCodePoints ==
  {0, 37, 65, 127, 128, 233, 2047, 2048, 19990, 55295, 57344, 65535, 65536, 128512, 1114111}

MaxTextLen == 2

SampleStrings ==
  {<<>>} \cup UNION {[1..n -> SampleCodePoints] : n \in 1..MaxTextLen}

\* known encodings: "a", "é", "世", "\U0001f600", "hé"
KnownBase64 ==
  {<< <<97>>, <<"Y", "Q", "=", "=">> >>,
   << <<233>>, <<"w", "6", "k", "=">> >>,
   << <<19990>>, <<"5", "L", "i", "W">> >>,
   << <<128512>>, <<"8", "J", "+", "Y", "g", "A", "=", "=">> >>,
   << <<104, 233>>, <<"a", "M", "O", "p">> >>}

\* C23: for every string S, fromBase64(toBase64(S)) = S, multi-byte characters
\* included, and toBase64(S) is the base64 encoding of the UTF-8 bytes of S;
\* every payload a save sends decodes to the text saved, and the text shown
\* for an opened file encodes to the payload stored.
C23_Base64RoundTrip ==
  /\ \A str \in SampleStrings :
       fromBase64(toBase64(str)) = [threw |-> FALSE, text |-> str]
  /\ \A kv \in KnownBase64 : toBase64(kv[1]) = kv[2]
  /\ [](\A sv \in BagToSet(saves) :
          fromBase64(sv.req.content) = [threw |-> FALSE, text |-> sv.editContent])
  /\ [][\A o \in BagToSet(opens) :
          (OpenResponse(o, "served") /\ Live(o.inst) /\ o.file.path \in DOMAIN remote) =>
            toBase64(fileContent') = remote[o.file.path]]_vars

\* a file saved with the multi-byte text: what is stored decodes to what is shown
C23_Witness ==
  /\ FileViewShown /\ ~isEditing
  /\ statusMsg = SavedMsg
  /\ fileContent = TextC
  /\ Len(Utf8Bytes(fileContent)) > Len(fileContent)
  /\ viewingFile.path \in DOMAIN remote
  /\ remote[viewingFile.path] = toBase64(TextC)
  /\ fromBase64(remote[viewingFile.path]).text = fileContent

\* C24: editing mode implies that a file is open, and the file shown never
\* changes while editing mode is on, so that the buffer handleSaveFile writes
\* to a file's path was initialised (by the Edit button) from that file.
C24_BufferBelongsToFile ==
  /\ [](isEditing => viewingFile # NoFile)
  /\ [][(viewingFile' # viewingFile /\ viewingFile' # NoFile) => ~isEditing']_vars

\* the listing requests of the mounted explorer that are still in flight
LoadsInFlight == {l \in BagToSet(loads) : Live(l.inst)}

\* C25: whenever no listing request is in flight, the listing held in view
\* state is the listing of the current path.  Checked on the answers: an answer
\* for a path that is not the current one, arriving when no other listing
\* request is in flight, is not displayed (the listing stays as it was, or
\* what is stored consists of children of the current path).
C25_ListingOfCurrentPath ==
  [][\A l \in BagToSet(loads), o \in Outcomes :
       (/\ LoadResponse(l, o)
        /\ Live(l.inst)
        /\ l.path # path
        /\ LoadsInFlight' = {}) =>
          \/ contents' = contents
          \/ \A e \in Range(contents') : e.path = joinPath(path, e.name)]_vars

\* C26: all writes of an upload run go under the directory that was current
\* when the run started: a run takes the path of the moment it starts, keeps
\* it, and every write, also one issued after the navigation path has
\* changed, has that directory in front of the unit's name.
C26_RunKeepsDirectory ==
  /\ [](\A r \in RunIds : \A n \in 1..Len(runs[r].writes) :
          LET w == runs[r].writes[n]
              pre == DirPrefix(runs[r].path)
          IN /\ Len(w.path) > Len(pre)
             /\ SubSeq(w.path, 1, Len(pre)) = pre
             /\ SubSeq(w.path, Len(pre) + 1, Len(w.path)) = UnitName(runs[r], w))
  /\ [][/\ \A r \in RunIds : r <= Len(runs') => runs'[r].path = runs[r].path
        /\ Len(runs') > Len(runs) => runs'[Len(runs')].path = path]_vars

\* a run started at the top level issued its write for c while its explorer
\* was showing directory d
C26_Witness ==
  \E r \in RunIds :
    /\ runs[r].path = <<>>
    /\ Len(runs[r].writes) >= 1
    /\ runs[r].writes[1].live
    /\ runs[r].writes[1].at = <<"d">>
    /\ runs[r].writes[1].path = <<"c">>

\* the mutations the mounted explorer has started and not finished, and those
\* of them that have a write or delete request in flight
Unfinished ==
  {<<"save", sv>> : sv \in {x \in BagToSet(saves) : x.inst = inst}}
    \cup {<<"delete", d>> : d \in {x \in BagToSet(deletes) : x.inst = inst}}
    \cup {<<"run", r>> : r \in {x \in RunIds : runs[x].inst = inst /\ runs[x].pc \notin Terminal}}

RequestsInFlight ==
  {u \in Unfinished : u[1] = "run" => runs[u[2]].pc = "put"}

\* C27: the uploading flag is true whenever a write or delete request is in
\* flight, and false once every started save, delete and upload run has
\* finished: one operation finishing never clears the flag while another
\* mutation is still in flight.
C27_UploadingTracksMutations ==
  mounted =>
    /\ RequestsInFlight # {} => uploading
    /\ Unfinished = {} => ~uploading

\* no event of the session is pending
AuthSettled == notify = <<>> /\ resolved = 0 /\ logins = 0 /\ signOuts = 0

HoldsToken == user.present /\ user.githubToken = Token /\ store.gh_token = Token

\* C28: after an interactive login that yields a token the session eventually
\* holds a user whose token is the persisted token, and it still does when
\* both events that set the user have run, in either order: the observer's
\* callback before the continuation of login(), or after it.
C28_LoginYieldsToken ==
  /\ (resolved > 0) ~> HoldsToken
  /\ []((AuthSettled /\ lastLogin.ok /\ user.present) => HoldsToken)

\* the continuation of login() ran first and the observer's callback after it:
\* each set the user and so called loadRepos, and the user holds the token
C28_Witness ==
  /\ AuthSettled
  /\ lastLogin.ok
  /\ HoldsToken
  /\ BagCardinality(listReqs) = 2

\* C29: when handleSaveFile fails, the view state other than the status
\* message and the uploading flag is unchanged (the file stays open, editing
\* mode stays on, the edit buffer and the displayed content keep their
\* values); when it succeeds, the displayed content is the buffer that was
\* saved and editing mode is off.
C29_SaveOutcome ==
  [][\A sv \in BagToSet(saves), o \in Outcomes :
       (SaveResponse(sv, o) /\ Live(sv.inst)) =>
         IF ResponseOk(PutStatus(sv.req, o))
           THEN /\ fileContent' = sv.editContent
                /\ fromBase64(sv.req.content) = [threw |-> FALSE, text |-> fileContent']
                /\ ~isEditing'
                /\ ~uploading'
           ELSE /\ UNCHANGED <<path, contents, loading, viewingFile, fileContent, isEditing,
                               editContent, showActions, inputValue>>
                /\ statusMsg' = SaveErrorMsg
                /\ ~uploading']_vars

\* a save has failed: the file is still open in editing mode with the buffer
\* that was not saved
C29_Witness ==
  /\ FileViewShown
  /\ isEditing
  /\ statusMsg = SaveErrorMsg
  /\ ~uploading
  /\ saves = EmptyBag
  /\ editContent # fileContent
  /\ fromBase64(remote[viewingFile.path]).text = fileContent

\* a path is empty or non-empty segments joined by "/"
WellFormedPath(p) ==
  p = <<>> \/ \A k \in 1..Len(Split(p)) : Split(p)[k] # <<>>

SamplePaths == {<<>>, <<"d">>, <<"d", "/", "f">>, <<"f", "/", "d", "/", "d">>}
SampleFolders == {<<"d">>, <<"f">>, <<"d", ".", "d">>}

\* C30: the navigation path is always empty or a "/"-joined sequence of
\* non-empty segments; with no file open, handleNavigateUp after
\* handleNavigate(f) gives back the path, for every folder name f without "/";
\* handleNavigateUp leaves the repository only when the path is empty and no
\* file is open.
C30_PathNavigation ==
  /\ \A p \in SamplePaths, f \in SampleFolders :
       /\ WellFormedPath(NavigatePath(p, f))
       /\ ParentPath(NavigatePath(p, f)) = p
  /\ [](WellFormedPath(path))
  /\ [][/\ \A e \in Range(contents) : handleNavigate(e) => ParentPath(path') = path
        /\ handleNavigateUp =>
             /\ (viewingFile = NoFile /\ path # <<>>) =>
                  (path' = ParentPath(path) /\ selectedRepo' /\ NavigatePath(path', Last(Split(path))) = path)
             /\ ~selectedRepo' <=> (path = <<>> /\ viewingFile = NoFile)]_vars

\* directory d was entered and left again with the back button: both listing
\* requests are still in flight and the path is the top level again
C30_Witness ==
  /\ mounted
  /\ path = <<>>
  /\ viewingFile = NoFile
  /\ LoadCall(Token, <<"d">>, inst) \in BagToSet(loads)
  /\ LoadCall(Token, <<>>, inst) \in BagToSet(loads)

====
